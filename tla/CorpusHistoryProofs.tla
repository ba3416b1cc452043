------------------------- MODULE CorpusHistoryProofs -------------------------
(***************************************************************************)
(* A history that passes the validator keeps every promise of custody,      *)
(* whoever wrote it and however it came about: validateCorpusRegistry is    *)
(* sound.  The lemmas read, off the verdict an event was accepted on        *)
(* (AcceptedOn), the events that were there before it, and follow the       *)
(* references from one event to the next.  The last ones count: the caps of *)
(* groups of assignments and the exact cohort that is released and          *)
(* consumed.  Those rest on two facts more: events are finitely many, and   *)
(* an event was accepted on exactly the members of its group that came      *)
(* before it.                                                               *)
(***************************************************************************)
EXTENDS CorpusHistory, CorpusEventsProofs

-----------------------------------------------------------------------------
(* What an event of a valid registry was accepted on: the verdict it had    *)
(* and the events that were there.                                          *)
LEMMA AcceptedOn ==
  ASSUME NEW h \in Seq(Event), RegistryValid(h), NEW i \in DOMAIN h
  PROVE  /\ i \in Nat \ {0} /\ h[i] \in Event
         /\ ChainOk(Before(h, i), h[i])
         /\ IdentityOk(Before(h, i), h[i])
         /\ TypeSpecificOk(Before(h, i), h[i])
         /\ DOMAIN Before(h, i) = {j \in DOMAIN h : j < i}
         /\ \A j \in DOMAIN h : j < i => Before(h, i)[j] = h[j]
         /\ \A type : EventsOf(Before(h, i), type)
                        = {j \in EventsOf(h, type) : j < i}
<1>1. /\ DOMAIN h = 1 .. Len(h) /\ Len(h) \in Nat
      /\ h[i] \in Event
  BY LenProperties, ElementOfSeq
<1>2. EventOk(Before(h, i), h[i])
  BY DEF RegistryValid
<1>3. /\ DOMAIN Before(h, i) = 1 .. (i - 1)
      /\ \A j \in 1 .. (i - 1) : Before(h, i)[j] = h[j]
  BY BeforeIsPrefix
<1>4. DOMAIN Before(h, i) = {j \in DOMAIN h : j < i}
  BY <1>1, <1>3
<1>5. \A j \in DOMAIN h : j < i => Before(h, i)[j] = h[j]
  BY <1>1, <1>3
<1>6. ASSUME NEW type
      PROVE  EventsOf(Before(h, i), type)
               = {j \in EventsOf(h, type) : j < i}
  BY <1>4, <1>5 DEF EventsOf
<1>7. QED
  BY <1>1, <1>2, <1>4, <1>5, <1>6 DEF EventOk

(* One owner per identity value, in every valid history.                    *)
LEMMA OwnersExclusive ==
  ASSUME NEW h \in Seq(Event), RegistryValid(h)
  PROVE  OneOwnerPerIdentity(h)
<1>1. ASSUME NEW i \in DOMAIN h, NEW j \in DOMAIN h, i <= j,
             NEW b \in Bindings(h[i]), NEW c \in Bindings(h[j])
      PROVE  Agree(b, c)
  <2>1. /\ IdentityOk(Before(h, j), h[j])
        /\ i < j => i \in DOMAIN Before(h, j)
        /\ i < j => Before(h, j)[i] = h[i]
    BY AcceptedOn
  <2>2. i \in Nat /\ j \in Nat
    BY LenProperties
  <2>3. CASE i < j
    BY <2>1, <2>3 DEF IdentityOk, Agree
  <2>4. CASE i = j
    BY <2>1, <2>4 DEF IdentityOk
  <2>5. QED
    BY <1>1, <2>2, <2>3, <2>4
<1>2. ASSUME NEW i \in DOMAIN h, NEW j \in DOMAIN h,
             NEW b \in Bindings(h[i]), NEW c \in Bindings(h[j])
      PROVE  Agree(b, c)
  <2>1. i \in Nat /\ j \in Nat
    BY LenProperties
  <2>2. CASE i <= j
    BY <1>1, <2>2
  <2>3. CASE j <= i
    <3>1. Agree(c, b)
      BY <1>1, <2>3
    <3>2. QED
      BY <3>1 DEF Agree
  <2>4. QED
    BY <2>1, <2>2, <2>3
<1>3. QED
  BY <1>2 DEF OneOwnerPerIdentity

(* The time chain, between neighbours. *)
LEMMA NeighboursOrdered ==
  ASSUME NEW h \in Seq(Event), RegistryValid(h), NEW m \in DOMAIN h, m - 1 \in DOMAIN h
  PROVE  h[m - 1].issuedAt <= h[m].issuedAt
<1>1. DOMAIN h = 1 .. Len(h) /\ Len(h) \in Nat
  BY LenProperties
<1>2. ChainOk(Before(h, m), h[m])
  BY AcceptedOn
<1>3. /\ m \in Nat /\ m - 1 \in 1 .. (m - 1)
      /\ Len(Before(h, m)) = m - 1
      /\ Before(h, m)[m - 1] = h[m - 1]
  <2>1. m \in Nat /\ m - 1 \in 1 .. (m - 1)
    BY <1>1
  <2>2. /\ Len(Before(h, m)) = m - 1
        /\ \A j \in 1 .. (m - 1) : Before(h, m)[j] = h[j]
    BY BeforeIsPrefix
  <2>3. QED
    BY <2>1, <2>2
<1>4. Before(h, m) # <<>>
  <2>1. Before(h, m) = <<>> => Len(Before(h, m)) = 0
    BY EmptySeq
  <2>2. QED
    BY <1>3, <2>1
<1>5. QED
  BY <1>2, <1>3, <1>4 DEF ChainOk

(* Stamps never run backwards, whatever the runners' clocks show.  The     *)
(* chain compares neighbours only; the first event stamped before event i  *)
(* would break the chain with its predecessor.                              *)
LEMMA StampsInOrder ==
  ASSUME NEW h \in Seq(Event), RegistryValid(h)
  PROVE  StampedInOrder(h)
<1>1. ASSUME NEW i \in DOMAIN h,
             NEW j \in DOMAIN h, i <= j
      PROVE  h[i].issuedAt <= h[j].issuedAt
  <2>1. DOMAIN h = 1 .. Len(h) /\ Len(h) \in Nat
    BY <1>1, LenProperties
  <2>2. \A n \in DOMAIN h : h[n].issuedAt \in Nat
    <3> SUFFICES ASSUME NEW n \in DOMAIN h PROVE h[n].issuedAt \in Nat
      OBVIOUS
    <3>1. h[n] \in Event
      BY <1>1, AcceptedOn
    <3>2. QED
      BY <3>1 DEF Event, EventsOfType
  <2> DEFINE Earlier == {n \in i .. Len(h) :
                           h[n].issuedAt < h[i].issuedAt}
  <2>3. Earlier = {}
    <3> SUFFICES ASSUME Earlier # {} PROVE FALSE
      OBVIOUS
    <3>1. Earlier \in SUBSET Nat
      BY <2>1
    <3>2. PICK m \in Earlier : \A n \in Earlier : m <= n
      BY <3>1, LeastNatural
    <3>3. m \in DOMAIN h /\ m - 1 \in DOMAIN h /\ i <= m - 1
      BY <2>1, <2>2, <3>2
    <3>4. h[i].issuedAt <= h[m - 1].issuedAt
      BY <2>1, <2>2, <3>2, <3>3
    <3>5. h[m - 1].issuedAt <= h[m].issuedAt
      BY <1>1, <2>1, <3>3, NeighboursOrdered
    <3>6. QED
      BY <2>2, <3>2, <3>3, <3>4, <3>5
  <2>4. QED
    BY <1>1, <2>1, <2>2, <2>3
<1>2. QED
  BY <1>1 DEF StampedInOrder

-----------------------------------------------------------------------------
(* A case is assigned once, and its truth is sealed once. *)
LEMMA OncePerCase ==
  ASSUME NEW h \in Seq(Event), RegistryValid(h), NEW type \in {"assign", "truth-seal"},
         NEW i \in EventsOf(h, type), NEW j \in EventsOf(h, type),
         h[i].caseId = h[j].caseId
  PROVE  i = j
<1>1. ASSUME NEW a \in EventsOf(h, type), NEW b \in EventsOf(h, type),
             h[a].caseId = h[b].caseId, a < b
      PROVE  FALSE
  <2>1. a \in DOMAIN h /\ b \in DOMAIN h /\ h[b].eventType = type
    BY DEF EventsOf
  <2>2. EventsOfCase(Before(h, b), type, h[b].caseId) = {}
    BY <2>1, AcceptedOn DEF TypeSpecificOk, AssignmentOk, TruthSealOk
  <2>3. /\ EventsOf(Before(h, b), type) = {n \in EventsOf(h, type) : n < b}
        /\ Before(h, b)[a] = h[a]
    BY <1>1, <2>1, AcceptedOn
  <2>4. QED
    BY <1>1, <2>2, <2>3 DEF EventsOfCase
<1>2. i \in Nat /\ j \in Nat
  BY LenProperties DEF EventsOf
<1>3. QED
  BY <1>1, <1>2

(* An accepted consume event covers assignments of its own corpus and       *)
(* split, made before it, of cases whose truth was sealed before it.        *)
LEMMA ConsumedCohort ==
  ASSUME NEW h \in Seq(Event), RegistryValid(h), NEW k \in EventsOf(h, "consume")
  PROVE  \A a \in h[k].payload.caseEvents :
           /\ a \in EventsOf(h, "assign") /\ a < k
           /\ h[a].payload.split = h[k].payload.split
           /\ \E t \in EventsOf(h, "truth-seal") :
                t < k /\ h[t].caseId = h[a].caseId
<1> DEFINE log   == Before(h, k)
           cases == CasesIn(log, AssignedTo(log, h[k].corpusId,
                                            h[k].payload.split))
<1>1. k \in DOMAIN h /\ h[k].eventType = "consume"
  BY DEF EventsOf
<1>2. /\ ConsumeOk(log, h[k])
      /\ \A j \in DOMAIN h : j < k => log[j] = h[j]
      /\ \A type : EventsOf(log, type) = {j \in EventsOf(h, type) : j < k}
  BY <1>1, AcceptedOn DEF TypeSpecificOk
<1>3. \A type : EventsOf(h, type) \subseteq DOMAIN h
  BY DEF EventsOf
<1>4. /\ h[k].payload.caseEvents
           = AssignedTo(log, h[k].corpusId, h[k].payload.split)
      /\ TruthsSealed(log, cases)
  BY <1>2 DEF ConsumeOk, CohortComplete
<1> HIDE DEF log
<1>5. SUFFICES ASSUME NEW a \in h[k].payload.caseEvents
               PROVE  /\ a \in EventsOf(h, "assign") /\ a < k
                      /\ h[a].payload.split = h[k].payload.split
                      /\ \E t \in EventsOf(h, "truth-seal") :
                           t < k /\ h[t].caseId = h[a].caseId
  OBVIOUS
<1>6. a \in EventsOf(log, "assign") /\ log[a].payload.split = h[k].payload.split
  BY <1>4 DEF AssignedTo
<1>7. a \in EventsOf(h, "assign") /\ a < k /\ log[a] = h[a]
  BY <1>2, <1>3, <1>6
<1>8. log[a].caseId \in cases
  BY <1>4 DEF CasesIn
<1>9. PICK t \in EventsOf(log, "truth-seal") : log[t].caseId = log[a].caseId
  BY <1>4, <1>8 DEF TruthsSealed, EventsOfCase
<1>10. t \in EventsOf(h, "truth-seal") /\ t < k /\ log[t] = h[t]
  BY <1>2, <1>3, <1>9
<1>11. QED
  BY <1>6, <1>7, <1>9, <1>10

(* An accepted execution seal names an earlier consume event of its own     *)
(* corpus and campaign.                                                     *)
LEMMA SealedAfterConsume ==
  ASSUME NEW h \in Seq(Event), RegistryValid(h), NEW x \in EventsOf(h, "execution-seal")
  PROVE  /\ ConsumeOf(h, x) \in EventsOf(h, "consume") /\ ConsumeOf(h, x) < x
         /\ h[ConsumeOf(h, x)].corpusId = h[x].corpusId
         /\ h[ConsumeOf(h, x)].payload.campaign = h[x].payload.campaign
<1>1. x \in DOMAIN h /\ h[x].eventType = "execution-seal"
  BY DEF EventsOf
<1>2. ExecutionSealOk(Before(h, x), h[x])
  BY <1>1, AcceptedOn DEF TypeSpecificOk
<1>3. ConsumeOf(h, x) \in EventsOfCampaign(Before(h, x), "consume",
                         h[x].corpusId, h[x].payload.campaign)
  BY <1>2 DEF ExecutionSealOk, ConsumeOf
<1>4. /\ EventsOf(Before(h, x), "consume")
           = {j \in EventsOf(h, "consume") : j < x}
      /\ \A j \in DOMAIN h : j < x => Before(h, x)[j] = h[j]
  BY <1>1, AcceptedOn
<1>5. QED
  BY <1>3, <1>4 DEF EventsOfCampaign, EventsOf

-----------------------------------------------------------------------------
(* Product output never influences truth: whatever was executed, its truth  *)
(* was sealed before the consume event that let it run.                     *)
LEMMA TruthBeforeProduct ==
  ASSUME NEW h \in Seq(Event), RegistryValid(h)
  PROVE  TruthSealedFirst(h)
<1>1. ASSUME NEW x \in EventsOf(h, "execution-seal"),
             NEW a \in h[ConsumeOf(h, x)].payload.caseEvents
      PROVE  LET c == h[a].caseId IN
             /\ EventsOfCase(h, "truth-seal", c) # {}
             /\ \A t \in EventsOfCase(h, "truth-seal", c) :
                  /\ t < ConsumeOf(h, x) /\ ConsumeOf(h, x) < x
                  /\ h[t].payload.reviewSealedAt
                       <= h[ConsumeOf(h, x)].issuedAt
  <2> DEFINE k == ConsumeOf(h, x)
  <2>1. k \in EventsOf(h, "consume") /\ k < x
    BY <1>1, SealedAfterConsume
  <2> HIDE DEF k
  <2>2. a \in h[k].payload.caseEvents
    BY <1>1 DEF k
  <2>3. PICK t \in EventsOf(h, "truth-seal") :
          t < k /\ h[t].caseId = h[a].caseId
    BY <1>1, <2>1, <2>2, ConsumedCohort
  <2>4. \A u \in EventsOfCase(h, "truth-seal", h[a].caseId) : u = t
    BY <1>1, <2>3, OncePerCase DEF EventsOfCase
  <2>5. h[t].payload.reviewSealedAt <= h[k].issuedAt
    <3>1. /\ t \in DOMAIN h /\ h[t].eventType = "truth-seal"
          /\ k \in DOMAIN h /\ t \in Nat /\ k \in Nat
      BY <1>1, <2>1, <2>3, LenProperties DEF EventsOf
    <3>2. /\ h[t] \in Event /\ h[k] \in Event
          /\ TruthSealOk(Before(h, t), h[t])
      BY <1>1, <3>1, AcceptedOn DEF TypeSpecificOk
    <3>3. h[t] \in EventsOfType("truth-seal")
      BY <3>1, <3>2 DEF Event, EventsOfType
    <3>4. /\ h[t].payload.reviewSealedAt \in Nat /\ h[t].issuedAt \in Nat
          /\ h[k].issuedAt \in Nat
      BY <3>2, <3>3 DEF EventsOfType, PayloadOf, TruthPayload, Event
    <3>5. h[t].payload.reviewSealedAt <= h[t].issuedAt
      BY <3>2 DEF TruthSealOk
    <3>6. h[t].issuedAt <= h[k].issuedAt
      BY <2>3, <3>1, StampsInOrder DEF StampedInOrder
    <3>7. QED
      BY <3>4, <3>5, <3>6
  <2>6. t \in EventsOfCase(h, "truth-seal", h[a].caseId)
    BY <2>3 DEF EventsOfCase
  <2>7. QED
    BY <2>1, <2>3, <2>4, <2>5, <2>6 DEF k
<1>2. QED
  BY <1>1 DEF TruthSealedFirst, CasesExecuted, CasesIn

(* Two consume events of final cohorts share no case. *)
LEMMA FinalCohortsDisjoint ==
  ASSUME NEW h \in Seq(Event), RegistryValid(h), NEW k \in FinalConsumes(h),
         NEW l \in FinalConsumes(h), k < l
  PROVE  CasesIn(h, h[k].payload.caseEvents)
           \cap CasesIn(h, h[l].payload.caseEvents) = {}
<1> DEFINE log == Before(h, l)
<1>1. /\ k \in EventsOf(h, "consume") /\ l \in EventsOf(h, "consume")
      /\ k \in DOMAIN h /\ l \in DOMAIN h
      /\ h[k].payload.split = "final" /\ h[l].payload.split = "final"
      /\ h[l].eventType = "consume"
  BY DEF FinalConsumes, EventsOf
<1>2. k \in Nat /\ l \in Nat
  BY <1>1, LenProperties
<1>3. /\ ConsumeOk(log, h[l])
      /\ \A j \in DOMAIN h : j < l => log[j] = h[j]
      /\ EventsOf(log, "consume") = {j \in EventsOf(h, "consume") : j < l}
  BY <1>1, AcceptedOn DEF TypeSpecificOk
<1>4. k \in FinalConsumes(log) /\ log[k] = h[k]
  BY <1>1, <1>3 DEF FinalConsumes
<1>5. /\ \A a \in h[k].payload.caseEvents :
           a < k /\ a \in DOMAIN h /\ a \in Nat
      /\ \A a \in h[l].payload.caseEvents :
           a < l /\ a \in DOMAIN h
  BY <1>1, ConsumedCohort, LenProperties DEF EventsOf
<1>6. \A a \in h[k].payload.caseEvents \cup h[l].payload.caseEvents :
        log[a] = h[a]
  BY <1>2, <1>3, <1>5
<1>7. CasesIn(log, log[k].payload.caseEvents)
        \cap CasesIn(log, h[l].payload.caseEvents) = {}
  BY <1>1, <1>3, <1>4 DEF ConsumeOk, CohortComplete, Unconsumed
<1> HIDE DEF log
<1>8. QED
  BY <1>4, <1>6, <1>7 DEF CasesIn

(* A campaign of a corpus is sealed by one execution seal. *)
LEMMA CampaignSealedOnce ==
  ASSUME NEW h \in Seq(Event), RegistryValid(h), NEW corpus, NEW campaign,
         NEW x \in EventsOfCampaign(h, "execution-seal", corpus, campaign),
         NEW y \in EventsOfCampaign(h, "execution-seal", corpus, campaign)
  PROVE  x = y
<1>1. ASSUME NEW u \in EventsOfCampaign(h, "execution-seal", corpus, campaign),
             NEW v \in EventsOfCampaign(h, "execution-seal", corpus, campaign),
             u < v
      PROVE  FALSE
  <2>1. /\ u \in DOMAIN h /\ v \in DOMAIN h
        /\ h[v].eventType = "execution-seal" /\ u \in EventsOf(h, "execution-seal")
        /\ h[u].corpusId = h[v].corpusId
        /\ h[u].payload.campaign = h[v].payload.campaign
    BY DEF EventsOfCampaign, EventsOf
  <2>2. /\ ExecutionSealOk(Before(h, v), h[v])
        /\ Before(h, v)[u] = h[u]
        /\ EventsOf(Before(h, v), "execution-seal")
             = {n \in EventsOf(h, "execution-seal") : n < v}
    BY <1>1, <2>1, AcceptedOn DEF TypeSpecificOk
  <2>3. EventsOfCampaign(Before(h, v), "execution-seal",
          h[v].corpusId, h[v].payload.campaign) = {}
    BY <2>2 DEF ExecutionSealOk
  <2>4. QED
    BY <1>1, <2>1, <2>2, <2>3 DEF EventsOfCampaign
<1>2. x \in Nat /\ y \in Nat
  BY LenProperties DEF EventsOfCampaign, EventsOf
<1>3. QED
  BY <1>1, <1>2

(* A consume event is sealed by one execution seal. *)
LEMMA SealedOnce ==
  ASSUME NEW h \in Seq(Event), RegistryValid(h), NEW x \in EventsOf(h, "execution-seal"),
         NEW y \in EventsOf(h, "execution-seal"),
         ConsumeOf(h, x) = ConsumeOf(h, y)
  PROVE  x = y
<1>1. /\ h[x].corpusId = h[y].corpusId
      /\ h[x].payload.campaign = h[y].payload.campaign
  BY SealedAfterConsume
<1>2. {x, y} \subseteq
        EventsOfCampaign(h, "execution-seal", h[x].corpusId, h[x].payload.campaign)
  BY <1>1 DEF EventsOfCampaign
<1>3. QED
  BY <1>2, CampaignSealedOnce

(* One-time consumption: no history lets a final case be executed twice,    *)
(* not even through a second campaign or a second corpus.                   *)
LEMMA FinalCasesOnce ==
  ASSUME NEW h \in Seq(Event), RegistryValid(h)
  PROVE  FinalExecutedOnce(h)
<1>1. ASSUME NEW x \in EventsOf(h, "execution-seal"),
             NEW y \in EventsOf(h, "execution-seal"),
             h[ConsumeOf(h, x)].payload.split = "final",
             CasesExecuted(h, x) \cap CasesExecuted(h, y) # {}
      PROVE  x = y
  <2> DEFINE k == ConsumeOf(h, x)
             l == ConsumeOf(h, y)
  <2>1. k \in EventsOf(h, "consume") /\ l \in EventsOf(h, "consume")
    BY <1>1, SealedAfterConsume
  <2>2. PICK a \in h[k].payload.caseEvents, b \in h[l].payload.caseEvents :
          h[a].caseId = h[b].caseId
    BY <1>1 DEF CasesExecuted, CasesIn
  <2>3. /\ a \in EventsOf(h, "assign") /\ b \in EventsOf(h, "assign")
        /\ h[a].payload.split = h[k].payload.split
        /\ h[b].payload.split = h[l].payload.split
    BY <1>1, <2>1, <2>2, ConsumedCohort
  <2>4. a = b
    BY <1>1, <2>2, <2>3, OncePerCase
  <2>5. k \in FinalConsumes(h) /\ l \in FinalConsumes(h)
    BY <1>1, <2>1, <2>3, <2>4 DEF FinalConsumes
  <2>6. k \in Nat /\ l \in Nat
    BY <1>1, <2>1, LenProperties DEF EventsOf
  <2>7. k = l
    BY <1>1, <2>5, <2>6, FinalCohortsDisjoint DEF CasesExecuted
  <2>8. QED
    BY <1>1, <2>7, SealedOnce
<1>2. QED
  BY <1>1 DEF FinalExecutedOnce

-----------------------------------------------------------------------------
(* The events an accepted event names by campaign are older events of the   *)
(* registry itself.                                                         *)
LEMMA NamedBefore ==
  ASSUME NEW h \in Seq(Event), RegistryValid(h), NEW i \in DOMAIN h, NEW type, NEW corpus,
         NEW campaign,
         NEW j \in EventsOfCampaign(Before(h, i), type, corpus, campaign)
  PROVE  /\ j \in DOMAIN h /\ j < i /\ Before(h, i)[j] = h[j]
         /\ h[j].eventType = type /\ h[j].corpusId = corpus
         /\ h[j].payload.campaign = campaign
<1>1. j \in EventsOf(Before(h, i), type)
  BY DEF EventsOfCampaign
<1>2. EventsOf(Before(h, i), type) = {n \in EventsOf(h, type) : n < i}
  BY AcceptedOn
<1>3. j \in DOMAIN h /\ j < i /\ h[j].eventType = type
  BY <1>1, <1>2 DEF EventsOf
<1>4. Before(h, i)[j] = h[j]
  BY <1>3, AcceptedOn
<1>5. QED
  BY <1>3, <1>4 DEF EventsOfCampaign

(* A role seals its judgement of a campaign once. *)
LEMMA JudgedOnce ==
  ASSUME NEW h \in Seq(Event), RegistryValid(h), NEW s \in EventsOf(h, "judge-seal"),
         NEW i \in EventsOf(h, "judge-seal"),
         h[i].corpusId = h[s].corpusId,
         h[i].payload.campaign = h[s].payload.campaign,
         h[i].payload.role = h[s].payload.role
  PROVE  i = s
<1>1. ASSUME NEW u \in EventsOf(h, "judge-seal"),
             NEW v \in EventsOf(h, "judge-seal"), u < v,
             h[u].corpusId = h[v].corpusId,
             h[u].payload.campaign = h[v].payload.campaign,
             h[u].payload.role = h[v].payload.role
      PROVE  FALSE
  <2>1. /\ u \in DOMAIN h /\ v \in DOMAIN h
        /\ h[v].eventType = "judge-seal"
    BY DEF EventsOf
  <2>2. /\ JudgeSealOk(Before(h, v), h[v])
        /\ Before(h, v)[u] = h[u]
        /\ EventsOf(Before(h, v), "judge-seal")
             = {n \in EventsOf(h, "judge-seal") : n < v}
    BY <1>1, <2>1, AcceptedOn DEF TypeSpecificOk
  <2>3. EventsOfRole(Before(h, v), "judge-seal", h[v].corpusId,
          h[v].payload.campaign, h[v].payload.role) = {}
    BY <2>2 DEF JudgeSealOk
  <2>4. QED
    BY <1>1, <2>2, <2>3 DEF EventsOfRole, EventsOfCampaign
<1>2. s \in Nat /\ i \in Nat
  BY LenProperties DEF EventsOf
<1>3. QED
  BY <1>1, <1>2

(* A judgement is about one execution, challenged over the evidence that    *)
(* was sealed, and is given once.                                           *)
LEMMA ChainsUnbroken ==
  ASSUME NEW h \in Seq(Event), RegistryValid(h)
  PROVE  JudgedInChain(h)
<1>1. ASSUME NEW s \in EventsOf(h, "judge-seal")
      PROVE
        LET j == h[s].payload.judgeChallengeEvent
            x == h[j].payload.executionSealEvent
            k == h[x].payload.consumeEvent
            About(i) == <<h[i].corpusId, h[i].payload.campaign>>
        IN /\ {j, x, k} \subseteq DOMAIN h
           /\ k < x /\ x < j /\ j < s
           /\ h[k].eventType = "consume"
           /\ h[x].eventType = "execution-seal"
           /\ h[j].eventType = "judge-challenge"
           /\ About(k) = About(x) /\ About(x) = About(j) /\ About(j) = About(s)
           /\ h[j].payload.role = h[s].payload.role
           /\ h[j].payload.evidenceRoot = h[s].payload.evidenceRoot
           /\ \A i \in EventsOf(h, h[s].eventType) :
                About(i) = About(s) /\ h[i].payload.role = h[s].payload.role
                => i = s
  <2> DEFINE j == h[s].payload.judgeChallengeEvent
             x == h[j].payload.executionSealEvent
             k == h[x].payload.consumeEvent
  <2>1. s \in DOMAIN h /\ h[s].eventType = "judge-seal"
    BY DEF EventsOf
  <2>2. JudgeSealOk(Before(h, s), h[s])
    BY <1>1, <2>1, AcceptedOn DEF TypeSpecificOk
  <2>3. /\ j \in EventsOfCampaign(Before(h, s), "judge-challenge",
                                   h[s].corpusId, h[s].payload.campaign)
        /\ Before(h, s)[j].payload.role = h[s].payload.role
        /\ h[s].payload.evidenceRoot = Before(h, s)[j].payload.evidenceRoot
    BY <2>2 DEF JudgeSealOk, EventsOfRole
  <2> HIDE DEF j
  <2>4. /\ j \in DOMAIN h /\ j < s /\ h[j].eventType = "judge-challenge"
        /\ h[j].corpusId = h[s].corpusId
        /\ h[j].payload.campaign = h[s].payload.campaign
        /\ h[j].payload.role = h[s].payload.role
        /\ h[j].payload.evidenceRoot = h[s].payload.evidenceRoot
    BY <1>1, <2>1, <2>3, NamedBefore
  <2>5. JudgeChallengeOk(Before(h, j), h[j])
    BY <1>1, <2>4, AcceptedOn DEF TypeSpecificOk
  <2>6. x \in EventsOfCampaign(Before(h, j), "execution-seal",
                               h[j].corpusId, h[j].payload.campaign)
    BY <2>5 DEF JudgeChallengeOk
  <2> HIDE DEF x
  <2>7. /\ x \in DOMAIN h /\ x < j /\ h[x].eventType = "execution-seal"
        /\ h[x].corpusId = h[j].corpusId
        /\ h[x].payload.campaign = h[j].payload.campaign
    BY <1>1, <2>4, <2>6, NamedBefore
  <2>8. /\ k \in DOMAIN h /\ k < x /\ h[k].eventType = "consume"
        /\ h[k].corpusId = h[x].corpusId
        /\ h[k].payload.campaign = h[x].payload.campaign
    BY <1>1, <2>7, SealedAfterConsume DEF ConsumeOf, EventsOf
  <2>9. \A i \in EventsOf(h, "judge-seal") :
          /\ h[i].corpusId = h[s].corpusId
          /\ h[i].payload.campaign = h[s].payload.campaign
          /\ h[i].payload.role = h[s].payload.role
          => i = s
    BY <1>1, JudgedOnce
  <2> HIDE DEF k
  <2>10. QED
    BY <2>1, <2>4, <2>7, <2>8, <2>9 DEF j, x, k
<1>2. QED
  BY <1>1 DEF JudgedInChain

-----------------------------------------------------------------------------
(* A truth seal of a fail-safe case adopts an earlier review of it. *)
LEMMA TruthAdoptsReview ==
  ASSUME NEW h \in Seq(Event), RegistryValid(h), NEW a \in EventsOf(h, "assign"),
         NEW t \in EventsOf(h, "truth-seal"),
         h[t].caseId = h[a].caseId,
         h[a].payload.split = "fail-safe"
  PROVE  \E v \in EventsOf(h, "review-seal") :
           /\ v < t /\ h[v].caseId = h[a].caseId
           /\ h[t].payload.reviewSealEvent = v
           /\ h[t].payload.candidate = h[v].payload.candidate
<1>1. t \in DOMAIN h /\ h[t].eventType = "truth-seal"
  BY DEF EventsOf
<1>2. /\ TruthSealOk(Before(h, t), h[t])
      /\ EventsOf(Before(h, t), "assign")
           = {n \in EventsOf(h, "assign") : n < t}
      /\ EventsOf(Before(h, t), "review-seal")
           = {n \in EventsOf(h, "review-seal") : n < t}
      /\ \A n \in DOMAIN h : n < t => Before(h, t)[n] = h[n]
  BY <1>1, AcceptedOn DEF TypeSpecificOk
<1>3. PICK b \in EventsOfCase(Before(h, t), "assign", h[t].caseId) :
        Before(h, t)[b].payload.split = "fail-safe"
          => AdoptsReview(Before(h, t), h[t])
  BY <1>2 DEF TruthSealOk
<1>4. /\ b \in EventsOf(h, "assign") /\ Before(h, t)[b] = h[b]
      /\ h[b].caseId = h[a].caseId
  BY <1>2, <1>3 DEF EventsOfCase, EventsOf
<1>5. a = b
  BY <1>4, OncePerCase
<1>6. PICK v \in EventsOfCase(Before(h, t), "review-seal", h[t].caseId) :
        /\ h[t].payload.reviewSealEvent = v
        /\ h[t].payload.candidate = Before(h, t)[v].payload.candidate
  BY <1>3, <1>4, <1>5 DEF AdoptsReview
<1>7. /\ v \in EventsOf(h, "review-seal") /\ v < t
      /\ Before(h, t)[v] = h[v] /\ h[v].caseId = h[a].caseId
  BY <1>2, <1>6 DEF EventsOfCase, EventsOf
<1>8. QED
  BY <1>6, <1>7

(* A review of a case is of the source the case was assigned with. *)
LEMMA ReviewOfAssignedSource ==
  ASSUME NEW h \in Seq(Event), RegistryValid(h), NEW a \in EventsOf(h, "assign"),
         NEW v \in EventsOf(h, "review-seal"),
         h[v].caseId = h[a].caseId
  PROVE  a < v /\ h[v].payload.source = h[a].payload.identity["source"]
<1>1. v \in DOMAIN h /\ h[v].eventType = "review-seal"
  BY DEF EventsOf
<1>2. /\ ReviewSealOk(Before(h, v), h[v])
      /\ EventsOf(Before(h, v), "assign")
           = {n \in EventsOf(h, "assign") : n < v}
      /\ \A n \in DOMAIN h : n < v => Before(h, v)[n] = h[n]
  BY <1>1, AcceptedOn DEF TypeSpecificOk
<1>3. PICK b \in EventsOfCase(Before(h, v), "assign", h[v].caseId) :
        Before(h, v)[b].payload.identity["source"] = h[v].payload.source
  BY <1>2 DEF ReviewSealOk
<1>4. /\ b \in EventsOf(h, "assign") /\ b < v
      /\ Before(h, v)[b] = h[b] /\ h[b].caseId = h[a].caseId
  BY <1>2, <1>3 DEF EventsOfCase, EventsOf
<1>5. a = b
  BY <1>4, OncePerCase
<1>6. QED
  BY <1>3, <1>4, <1>5

(* No refusal is counted as expected on the executor's own word: its review *)
(* came first, of the same source, and the truth is that review's outcome.  *)
LEMMA ReviewsBehindRefusals ==
  ASSUME NEW h \in Seq(Event), RegistryValid(h)
  PROVE  RefusalsReviewed(h)
<1>1. ASSUME NEW x \in EventsOf(h, "execution-seal"),
             h[ConsumeOf(h, x)].payload.split = "fail-safe",
             NEW a \in h[ConsumeOf(h, x)].payload.caseEvents
      PROVE  \E v, t \in DOMAIN h :
               /\ a < v /\ v < t /\ t < ConsumeOf(h, x)
               /\ h[v].eventType = "review-seal"
               /\ h[v].caseId = h[a].caseId
               /\ h[v].payload.source = h[a].payload.identity["source"]
               /\ h[t].eventType = "truth-seal"
               /\ h[t].caseId = h[a].caseId
               /\ h[t].payload.reviewSealEvent = v
               /\ h[t].payload.candidate = h[v].payload.candidate
  <2>1. ConsumeOf(h, x) \in EventsOf(h, "consume")
    BY <1>1, SealedAfterConsume
  <2>2. /\ a \in EventsOf(h, "assign")
        /\ h[a].payload.split = "fail-safe"
    BY <1>1, <2>1, ConsumedCohort
  <2>3. PICK t \in EventsOf(h, "truth-seal") :
          t < ConsumeOf(h, x) /\ h[t].caseId = h[a].caseId
    BY <1>1, <2>1, ConsumedCohort
  <2>4. PICK v \in EventsOf(h, "review-seal") :
          /\ v < t /\ h[v].caseId = h[a].caseId
          /\ h[t].payload.reviewSealEvent = v
          /\ h[t].payload.candidate = h[v].payload.candidate
    BY <1>1, <2>2, <2>3, TruthAdoptsReview
  <2>5. a < v /\ h[v].payload.source = h[a].payload.identity["source"]
    BY <1>1, <2>2, <2>4, ReviewOfAssignedSource
  <2>6. QED
    BY <2>3, <2>4, <2>5 DEF EventsOf
<1>2. QED
  BY <1>1 DEF RefusalsReviewed

(* One reviewed property backs one case: the alias sets of two reviews are  *)
(* disjoint.                                                                *)
LEMMA AliasesDistinct ==
  ASSUME NEW h \in Seq(Event), RegistryValid(h)
  PROVE  PropertiesReviewedOnce(h)
<1>1. ASSUME NEW v \in EventsOf(h, "review-seal"),
             NEW w \in EventsOf(h, "review-seal"), v < w
      PROVE  h[v].payload.aliases \cap h[w].payload.aliases = {}
  <2>1. /\ v \in DOMAIN h /\ w \in DOMAIN h
        /\ h[w].eventType = "review-seal"
    BY DEF EventsOf
  <2>2. /\ TypeSpecificOk(Before(h, w), h[w])
        /\ Before(h, w)[v] = h[v]
        /\ EventsOf(Before(h, w), "review-seal")
             = {n \in EventsOf(h, "review-seal") : n < w}
    BY <1>1, <2>1, AcceptedOn
  <2>3. PropertyUnreviewed(Before(h, w), h[w])
    BY <2>1, <2>2 DEF TypeSpecificOk, ReviewSealOk
  <2>4. QED
    BY <1>1, <2>2, <2>3 DEF PropertyUnreviewed
<1>2. EventsOf(h, "review-seal") \subseteq Nat
  BY LenProperties DEF EventsOf
<1>3. QED
  BY <1>1, <1>2 DEF PropertiesReviewedOnce

-----------------------------------------------------------------------------
(* Events are finitely many. *)
LEMMA EventsFinite ==
  ASSUME NEW h \in Seq(Event)
  PROVE  /\ DOMAIN h = 1 .. Len(h) /\ Len(h) \in Nat
         /\ \A S \in SUBSET DOMAIN h : IsFiniteSet(S)
<1>1. DOMAIN h = 1 .. Len(h) /\ Len(h) \in Nat
  BY LenProperties
<1>2. IsFiniteSet(1 .. Len(h))
  BY <1>1, FS_Interval
<1>3. QED
  BY <1>1, <1>2, FS_Subset

-----------------------------------------------------------------------------
(* What an assignment was accepted on: the older members of its groups.     *)
LEMMA AcceptedAmongPeers ==
  ASSUME NEW h \in Seq(Event), RegistryValid(h), NEW m \in EventsOf(h, "assign")
  PROVE  LET instrument == h[m].payload.instrument
             family     == h[m].payload.family
             sharers    == {i \in SameInstrument(h, instrument) : i < m}
             relatives  == {i \in SameFamily(h, family) : i < m}
         IN /\ Cardinality(sharers) + 1 <= InstrumentCap
            /\ Cardinality(relatives) + 1 <= FamilyCap
            /\ \A i \in sharers \cup relatives :
                 /\ h[i].corpusId = h[m].corpusId
                 /\ h[i].payload.split = h[m].payload.split
<1> DEFINE log        == Before(h, m)
           instrument == h[m].payload.instrument
           family     == h[m].payload.family
           sharers    == {i \in SameInstrument(h, instrument) : i < m}
           relatives  == {i \in SameFamily(h, family) : i < m}
<1>1. m \in DOMAIN h /\ h[m].eventType = "assign"
  BY DEF EventsOf
<1>2. /\ AssignmentOk(log, h[m])
      /\ \A j \in DOMAIN h : j < m => log[j] = h[j]
      /\ EventsOf(log, "assign") = {j \in EventsOf(h, "assign") : j < m}
  BY <1>1, AcceptedOn DEF TypeSpecificOk
<1> HIDE DEF log
<1>3. \A i \in EventsOf(h, "assign") : i \in DOMAIN h
  BY DEF EventsOf
<1>4. SameInstrument(log, instrument) = sharers
  BY <1>2, <1>3 DEF SameInstrument
<1>5. SameFamily(log, family) = relatives
  BY <1>2, <1>3 DEF SameFamily
<1>6. /\ GroupOk(log, h[m], sharers, InstrumentCap)
      /\ GroupOk(log, h[m], relatives, FamilyCap)
  BY <1>2, <1>4, <1>5 DEF AssignmentOk
<1>7. \A i \in sharers \cup relatives : log[i] = h[i]
  BY <1>2, <1>3 DEF SameInstrument, SameFamily
<1>8. QED
  BY <1>6, <1>7 DEF GroupOk

(* A set of events none of which exceeded the cap when it came does not     *)
(* exceed it.                                                               *)
LEMMA CappedByLast ==
  ASSUME NEW h \in Seq(Event), NEW S \in SUBSET DOMAIN h, NEW cap \in Nat,
         \A m \in S : Cardinality({i \in S : i < m}) + 1 <= cap
  PROVE  Cardinality(S) <= cap
<1>1. CASE S = {}
  BY <1>1, FS_EmptySet
<1>2. CASE S # {}
  <2>1. PICK m \in S : \A i \in S : i <= m
    BY <1>2, EventsFinite, GreatestNatural
  <2>2. \A i \in S : i \in Nat
    BY EventsFinite
  <2>3. {i \in S : i < m} = S \ {m}
    BY <2>1, <2>2
  <2>4. IsFiniteSet(S)
    BY EventsFinite
  <2>5. Cardinality(S \ {m}) = Cardinality(S) - 1 /\ Cardinality(S) \in Nat
    BY <2>1, <2>4, FS_RemoveElement, FS_CardinalityType
  <2>6. Cardinality(S \ {m}) + 1 <= cap
    BY <2>1, <2>3
  <2>7. QED
    BY <2>5, <2>6
<1>3. QED
  BY <1>1, <1>2

(* No cohort leaks into another through a shared document, and no group     *)
(* outgrows its cap.                                                        *)
LEMMA CohortsClosed ==
  ASSUME NEW h \in Seq(Event), RegistryValid(h)
  PROVE  GroupsInOneCohort(h)
<1>1. ASSUME NEW i \in EventsOf(h, "assign"), NEW j \in EventsOf(h, "assign"),
             \/ h[i].payload.instrument = h[j].payload.instrument
             \/ h[i].payload.family = h[j].payload.family
      PROVE  /\ h[i].corpusId = h[j].corpusId
             /\ h[i].payload.split = h[j].payload.split
  <2>1. i \in Nat /\ j \in Nat
    BY <1>1, EventsFinite DEF EventsOf
  <2>2. CASE i < j
    BY <1>1, <2>2, AcceptedAmongPeers DEF SameInstrument, SameFamily
  <2>3. CASE j < i
    BY <1>1, <2>3, AcceptedAmongPeers DEF SameInstrument, SameFamily
  <2>4. QED
    BY <2>1, <2>2, <2>3
<1>2. ASSUME NEW g \in Groups
      PROVE  /\ Cardinality(SameInstrument(h, g)) <= InstrumentCap
             /\ Cardinality(SameFamily(h, g)) <= FamilyCap
  <2>1. /\ SameInstrument(h, g) \in SUBSET DOMAIN h
        /\ SameFamily(h, g) \in SUBSET DOMAIN h
    BY DEF SameInstrument, SameFamily, EventsOf
  <2>2. ASSUME NEW m \in SameInstrument(h, g)
        PROVE  Cardinality({i \in SameInstrument(h, g) : i < m}) + 1 <= InstrumentCap
    <3>1. m \in EventsOf(h, "assign") /\ h[m].payload.instrument = g
      BY DEF SameInstrument
    <3>2. QED
      BY <1>2, <3>1, AcceptedAmongPeers
  <2>3. ASSUME NEW m \in SameFamily(h, g)
        PROVE  Cardinality({i \in SameFamily(h, g) : i < m}) + 1 <= FamilyCap
    <3>1. m \in EventsOf(h, "assign") /\ h[m].payload.family = g
      BY DEF SameFamily
    <3>2. QED
      BY <1>2, <3>1, AcceptedAmongPeers
  <2>4. InstrumentCap \in Nat /\ FamilyCap \in Nat
    BY LimitsAssumption
  <2>5. QED
    BY <1>2, <2>1, <2>2, <2>3, <2>4, CappedByLast
<1>3. QED
  BY <1>1, <1>2 DEF GroupsInOneCohort

-----------------------------------------------------------------------------
(* A case is released once, in the corpus it was assigned to, after a       *)
(* freeze that all releases of the corpus share.                            *)
LEMMA ReleasedOnce ==
  ASSUME NEW h \in Seq(Event), RegistryValid(h),
         NEW r \in EventsOf(h, "source-release"),
         NEW s \in EventsOf(h, "source-release"),
         h[r].caseId = h[s].caseId
  PROVE  r = s
<1>1. ASSUME NEW u \in EventsOf(h, "source-release"),
             NEW v \in EventsOf(h, "source-release"),
             h[u].caseId = h[v].caseId, u < v
      PROVE  FALSE
  <2>1. /\ u \in DOMAIN h /\ v \in DOMAIN h
        /\ h[v].eventType = "source-release"
    BY DEF EventsOf
  <2>2. /\ TypeSpecificOk(Before(h, v), h[v])
        /\ Before(h, v)[u] = h[u]
        /\ EventsOf(Before(h, v), "source-release")
             = {n \in EventsOf(h, "source-release") : n < v}
    BY <1>1, <2>1, AcceptedOn
  <2>3. EventsOfCase(Before(h, v), "source-release", h[v].caseId) = {}
    BY <2>1, <2>2 DEF TypeSpecificOk, SourceReleaseOk
  <2>4. QED
    BY <1>1, <2>2, <2>3 DEF EventsOfCase
<1>2. r \in Nat /\ s \in Nat
  BY EventsFinite DEF EventsOf
<1>3. QED
  BY <1>1, <1>2

(* A release is of the corpus its case was assigned in. *)
LEMMA ReleasedInItsCorpus ==
  ASSUME NEW h \in Seq(Event), RegistryValid(h),
         NEW r \in EventsOf(h, "source-release"),
         NEW a \in EventsOf(h, "assign"),
         h[r].caseId = h[a].caseId
  PROVE  h[r].corpusId = h[a].corpusId
<1>1. r \in DOMAIN h /\ h[r].eventType = "source-release"
  BY DEF EventsOf
<1>2. /\ SourceReleaseOk(Before(h, r), h[r])
      /\ \A j \in DOMAIN h : j < r => Before(h, r)[j] = h[j]
      /\ EventsOf(Before(h, r), "assign")
           = {n \in EventsOf(h, "assign") : n < r}
  BY <1>1, AcceptedOn DEF TypeSpecificOk
<1>3. PICK b \in EventsOfCase(Before(h, r), "assign", h[r].caseId) :
        Before(h, r)[b].corpusId = h[r].corpusId
  BY <1>2 DEF SourceReleaseOk
<1>4. /\ b \in EventsOf(h, "assign") /\ Before(h, r)[b] = h[b]
      /\ h[b].caseId = h[a].caseId
  BY <1>2, <1>3 DEF EventsOfCase, EventsOf
<1>5. a = b
  BY <1>4, OncePerCase
<1>6. QED
  BY <1>3, <1>4, <1>5

(* All releases of a corpus quote one freeze. *)
LEMMA FreezeShared ==
  ASSUME NEW h \in Seq(Event), RegistryValid(h),
         NEW r \in EventsOf(h, "source-release"),
         NEW s \in EventsOf(h, "source-release"),
         h[r].corpusId = h[s].corpusId
  PROVE  h[r].payload.frozenAt = h[s].payload.frozenAt
<1>1. ASSUME NEW u \in EventsOf(h, "source-release"),
             NEW v \in EventsOf(h, "source-release"),
             h[u].corpusId = h[v].corpusId, u < v
      PROVE  h[u].payload.frozenAt = h[v].payload.frozenAt
  <2>1. /\ u \in DOMAIN h /\ v \in DOMAIN h
        /\ h[v].eventType = "source-release"
    BY DEF EventsOf
  <2>2. /\ SourceReleaseOk(Before(h, v), h[v])
        /\ Before(h, v)[u] = h[u]
        /\ EventsOf(Before(h, v), "source-release")
             = {n \in EventsOf(h, "source-release") : n < v}
    BY <1>1, <2>1, AcceptedOn DEF TypeSpecificOk
  <2>3. u \in ReleasesOfCorpus(Before(h, v), h[v].corpusId)
    BY <1>1, <2>2 DEF ReleasesOfCorpus
  <2>4. QED
    BY <2>2, <2>3 DEF SourceReleaseOk
<1>2. r \in Nat /\ s \in Nat
  BY EventsFinite DEF EventsOf
<1>3. CASE r < s
  BY <1>1, <1>3
<1>4. CASE s < r
  BY <1>1, <1>4
<1>5. QED
  BY <1>2, <1>3, <1>4

(* An accepted final consume covers the required number of assignments of   *)
(* its corpus, and each of their cases was released before it to its tip.   *)
LEMMA ConsumedFinalCohort ==
  ASSUME NEW h \in Seq(Event), RegistryValid(h), NEW k \in FinalConsumes(h)
  PROVE  /\ Cardinality(h[k].payload.caseEvents) = FinalCohort
         /\ \A a \in h[k].payload.caseEvents :
              /\ a \in EventsOf(h, "assign")
              /\ h[a].corpusId = h[k].corpusId
              /\ \E r \in EventsOf(h, "source-release") :
                   /\ r < k /\ h[r].caseId = h[a].caseId
                   /\ h[r].payload.productCodeTip = h[k].payload.codeTip
<1> DEFINE log   == Before(h, k)
           roots == h[k].payload.caseEvents
<1>1. /\ k \in DOMAIN h /\ h[k].eventType = "consume"
      /\ h[k].payload.split = "final"
  BY DEF FinalConsumes, EventsOf
<1>2. /\ ConsumeOk(log, h[k])
      /\ \A j \in DOMAIN h : j < k => log[j] = h[j]
      /\ \A type : EventsOf(log, type) = {j \in EventsOf(h, type) : j < k}
  BY <1>1, AcceptedOn DEF TypeSpecificOk
<1> HIDE DEF log
<1>3. /\ roots = AssignedTo(log, h[k].corpusId, "final")
      /\ Cardinality(roots) = FinalCohort
      /\ ReleasedTo(log, CasesIn(log, roots), h[k].payload.codeTip)
  BY <1>1, <1>2 DEF ConsumeOk, CohortComplete
<1>4. ASSUME NEW a \in roots
      PROVE  /\ a \in EventsOf(h, "assign")
             /\ h[a].corpusId = h[k].corpusId
             /\ \E r \in EventsOf(h, "source-release") :
                  /\ r < k /\ h[r].caseId = h[a].caseId
                  /\ h[r].payload.productCodeTip = h[k].payload.codeTip
  <2>1. a \in EventsOf(log, "assign") /\ log[a].corpusId = h[k].corpusId
    BY <1>3 DEF AssignedTo
  <2>2. a \in EventsOf(h, "assign") /\ a < k /\ log[a] = h[a]
    BY <1>2, <2>1 DEF EventsOf
  <2>3. h[a].caseId \in CasesIn(log, roots)
    BY <2>2 DEF CasesIn
  <2>4. PICK r \in EventsOfCase(log, "source-release", h[a].caseId) :
          log[r].payload.productCodeTip = h[k].payload.codeTip
    BY <1>3, <2>3 DEF ReleasedTo
  <2>5. r \in EventsOf(log, "source-release") /\ log[r].caseId = h[a].caseId
    BY DEF EventsOfCase
  <2>6. /\ r \in EventsOf(h, "source-release") /\ r < k /\ log[r] = h[r]
    BY <1>2, <2>5 DEF EventsOf
  <2>7. QED
    BY <2>1, <2>2, <2>4, <2>5, <2>6
<1>5. QED
  BY <1>3, <1>4

(* A final execution ran on a complete cohort, each case of which was       *)
(* released once, before it and after one freeze, to the executed tip.      *)
LEMMA CohortsReleased ==
  ASSUME NEW h \in Seq(Event), RegistryValid(h)
  PROVE  CohortReleasedToTip(h)
<1>1. ASSUME NEW k \in FinalConsumes(h)
      PROVE
        LET roots    == h[k].payload.caseEvents
            releases == {r \in EventsOf(h, "source-release") :
                           h[r].caseId \in CasesIn(h, roots)}
        IN /\ Cardinality(roots) = FinalCohort
           /\ Cardinality(releases) = FinalCohort
           /\ \A r \in releases :
                /\ r < k
                /\ h[r].payload.productCodeTip = h[k].payload.codeTip
                /\ h[r].payload.frozenAt <= h[r].issuedAt
                /\ \A s \in releases :
                     h[r].payload.frozenAt = h[s].payload.frozenAt
  <2> DEFINE roots    == h[k].payload.caseEvents
             releases == {r \in EventsOf(h, "source-release") :
                            h[r].caseId \in CasesIn(h, roots)}
  <2>1. /\ Cardinality(roots) = FinalCohort
        /\ \A a \in roots :
             /\ a \in EventsOf(h, "assign")
             /\ h[a].corpusId = h[k].corpusId
             /\ \E r \in EventsOf(h, "source-release") :
                  /\ r < k /\ h[r].caseId = h[a].caseId
                  /\ h[r].payload.productCodeTip = h[k].payload.codeTip
    BY <1>1, ConsumedFinalCohort
  <2> HIDE DEF roots
  <2>2. \A r \in releases : \E a \in roots : h[r].caseId = h[a].caseId
    BY DEF CasesIn
  <2>3. Cardinality(releases) = FinalCohort
    <3> DEFINE key == [i \in DOMAIN h |-> h[i].caseId]
    <3>1. roots \subseteq DOMAIN h /\ releases \subseteq DOMAIN h
      BY <2>1 DEF EventsOf
    <3>2. IsFiniteSet(roots)
      BY <1>1, <3>1, EventsFinite
    <3>3. \A s, t \in roots : key[s] = key[t] => s = t
      BY <1>1, <2>1, <3>1, OncePerCase
    <3>4. \A s, t \in releases : key[s] = key[t] => s = t
      BY <1>1, <3>1, ReleasedOnce
    <3>5. \A a \in roots : \E r \in releases : key[a] = key[r]
      <4> SUFFICES ASSUME NEW a \in roots PROVE \E r \in releases : key[a] = key[r]
        OBVIOUS
      <4>1. PICK r \in EventsOf(h, "source-release") :
              h[r].caseId = h[a].caseId
        BY <2>1
      <4>2. r \in releases
        BY <4>1 DEF CasesIn
      <4>3. QED
        BY <3>1, <4>1, <4>2
    <3>6. \A r \in releases : \E a \in roots : key[a] = key[r]
      BY <2>2, <3>1
    <3> HIDE DEF key, releases
    <3>7. Cardinality(releases) = Cardinality(roots)
      BY <3>2, <3>3, <3>4, <3>5, <3>6, SameCount
    <3>8. QED
      BY <2>1, <3>7
  <2>4. ASSUME NEW r \in releases
        PROVE  /\ r < k
               /\ h[r].payload.productCodeTip = h[k].payload.codeTip
    <3>1. PICK a \in roots : h[r].caseId = h[a].caseId
      BY <2>2
    <3>2. PICK s \in EventsOf(h, "source-release") :
            /\ s < k /\ h[s].caseId = h[a].caseId
            /\ h[s].payload.productCodeTip = h[k].payload.codeTip
      BY <2>1
    <3>3. r = s
      BY <1>1, <3>1, <3>2, ReleasedOnce
    <3>4. QED
      BY <3>2, <3>3
  <2>5. ASSUME NEW r \in releases
        PROVE  h[r].payload.frozenAt <= h[r].issuedAt
    <3>1. r \in DOMAIN h /\ h[r].eventType = "source-release"
      BY DEF EventsOf
    <3>2. QED
      BY <1>1, <3>1, AcceptedOn DEF TypeSpecificOk, SourceReleaseOk
  <2>6. ASSUME NEW r \in releases
        PROVE  h[r].corpusId = h[k].corpusId
    <3>1. PICK a \in roots : h[r].caseId = h[a].caseId
      BY <2>2
    <3>2. QED
      BY <1>1, <2>1, <3>1, ReleasedInItsCorpus
  <2>7. \A r, s \in releases : h[r].payload.frozenAt = h[s].payload.frozenAt
    BY <1>1, <2>6, FreezeShared
  <2>8. QED
    BY <2>1, <2>3, <2>4, <2>5, <2>7 DEF roots
<1>2. QED
  BY <1>1 DEF CohortReleasedToTip

-----------------------------------------------------------------------------
(* Whatever history validateCorpusRegistry lets pass is in custody: its nine *)
(* kinds of rules, each about one event and what came before it, amount to  *)
(* all relations between events, at whatever distance and in whichever      *)
(* order they were appended.                                                *)
THEOREM ValidHistoriesHold ==
  ASSUME NEW h \in Seq(Event), RegistryValid(h)
  PROVE  CustodyHolds(h)
BY OwnersExclusive, CohortsClosed, StampsInOrder, TruthBeforeProduct, FinalCasesOnce,
   CohortsReleased, ReviewsBehindRefusals, AliasesDistinct, ChainsUnbroken
   DEF CustodyHolds

=============================================================================
