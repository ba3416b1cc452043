---------------------------- MODULE CorpusEvents ----------------------------
(***************************************************************************)
(* The events of the detailed corpus registry and the validator that       *)
(* accepts or refuses one event after a given history                      *)
(* (scripts/corpus-registry-semantics.mjs).                                *)
(*                                                                         *)
(* The code replays the whole registry and reports an error for it when    *)
(* any event fails, so a registry is valid iff every event is acceptable   *)
(* after the events before it.  EventOk(log, e) is that per-event verdict; *)
(* the validator's maps (assignments, truths, releases, ...) are look-ups  *)
(* in log.                                                                 *)
(*                                                                         *)
(* A hash of an event is its sequence number: the hash covers the sequence *)
(* and the previous hash, so within one registry the two identify each     *)
(* other.  0 is a hash of no event of the registry.  Field formats         *)
(* (hexadecimal digests, ISO dates, id patterns) are taken as well formed. *)
(***************************************************************************)
EXTENDS Integers, Sequences, FiniteSets

CONSTANTS
  Cases,            \* parcel identifiers, dp-...
  Corpora,          \* corpus identifiers, corpus-...
  Campaigns,        \* campaign names of consume, execution and judge events
  Values,           \* digests: identities, property aliases, evidence roots
  Groups,           \* instrument ids and source-family ids
  Tips,             \* product commit ids
  None,             \* JavaScript null
  FinalCohort,      \* cases of a final cohort (50)
  MinCohort,        \* least cases of a tuning or fail-safe cohort (20)
  FinalExecutions,  \* executions a final seal covers (150)
  InstrumentCap,    \* parcels of one instrument (2)
  FamilyCap         \* properties of one source family (5)

(* The limits are positive integers and null is not an identifier.         *)
ASSUME LimitsAssumption ==
  /\ FinalCohort \in Nat \ {0}
  /\ MinCohort \in Nat \ {0}
  /\ FinalExecutions \in Nat \ {0}
  /\ InstrumentCap \in Nat \ {0}
  /\ FamilyCap \in Nat \ {0}

ASSUME NoneAssumption == None \notin Cases \cup Corpora \cup Values

IdentityFields == {"source", "selector", "property", "titleChain"}
TruthFields    == {"description", "geometry"}
Splits         == {"tuning", "final", "fail-safe"}
CustodyModes   == {"exclusive-custodian", "operator-attested"}
Roles          == {"numerical", "provenance", "visual"}

EventTypes ==
  {"assign", "review-seal", "truth-seal", "source-release", "consume",
   "execution-seal", "judge-challenge", "judge-seal", "legacy-quarantine"}

(***************************************************************************)
(* Payloads.  A digest that names an event is a number; a set of digests   *)
(* (caseEvents) is a set of numbers; the fields the validator recomputes   *)
(* from the event itself (consumedAt, sealedAt, ...) are its issuedAt.     *)
(***************************************************************************)
AssignPayload ==
  [split : Splits, custodyMode : CustodyModes,
   identity : [IdentityFields -> Values], instrument : Groups, family : Groups]

LegacyRecord ==
  [caseId : Cases \cup {None},
   identity : [IdentityFields \cup TruthFields -> Values \cup {None}]]

QuarantinePayload == [records : SUBSET LegacyRecord]

ReviewPayload ==
  [assignmentEvent : Nat, source : Values, selector : Values,
   candidate : Values, aliases : SUBSET Values, twoSystems : BOOLEAN]

TruthPayload ==
  [assignmentEvent : Nat, identity : [TruthFields -> Values],
   reviewSealedAt : Nat, reviewSealEvent : Nat, candidate : Values]

ReleasePayload ==
  [assignmentEvent : Nat, productCodeTip : Tips, priorReleaseCount : Nat,
   frozenAt : Nat]

ConsumePayload ==
  [campaign : Campaigns, split : Splits, codeTip : Tips, manifest : Values,
   caseEvents : SUBSET Nat]

ExecutionPayload ==
  [campaign : Campaigns, consumeEvent : Nat, manifest : Values, codeTip : Tips,
   productCodeTip : Tips \cup {None}, executionCount : Nat, attested : BOOLEAN]

ChallengePayload ==
  [campaign : Campaigns, role : Roles, executionSealEvent : Nat,
   evidenceRoot : Values]

JudgePayload ==
  [campaign : Campaigns, role : Roles, judgeChallengeEvent : Nat,
   digestOf : Nat, evidenceRoot : Values]

PayloadOf(type) ==
  CASE type = "assign"            -> AssignPayload
    [] type = "review-seal"       -> ReviewPayload
    [] type = "truth-seal"        -> TruthPayload
    [] type = "source-release"    -> ReleasePayload
    [] type = "consume"           -> ConsumePayload
    [] type = "execution-seal"    -> ExecutionPayload
    [] type = "judge-challenge"   -> ChallengePayload
    [] type = "judge-seal"        -> JudgePayload
    [] type = "legacy-quarantine" -> QuarantinePayload

(* A caller's event data carries every field but the ones the custody       *)
(* workflow owns; a source release carries only the product tip.            *)
RequestPayloadOf(type) ==
  IF type = "source-release" THEN [productCodeTip : Tips] ELSE PayloadOf(type)

EventsOfType(type) ==
  [eventType : {type}, caseId : Cases \cup {None}, corpusId : Corpora \cup {None},
   issuedAt : Nat, payload : PayloadOf(type)]

Event ==
  EventsOfType("assign") \cup EventsOfType("legacy-quarantine")
    \cup EventsOfType("review-seal") \cup EventsOfType("truth-seal")
    \cup EventsOfType("source-release") \cup EventsOfType("consume")
    \cup EventsOfType("execution-seal") \cup EventsOfType("judge-challenge")
    \cup EventsOfType("judge-seal")

RequestsOfType(type) ==
  [eventType : {type}, caseId : Cases \cup {None}, corpusId : Corpora \cup {None},
   payload : RequestPayloadOf(type)]

Request ==
  RequestsOfType("assign") \cup RequestsOfType("legacy-quarantine")
    \cup RequestsOfType("review-seal") \cup RequestsOfType("truth-seal")
    \cup RequestsOfType("source-release") \cup RequestsOfType("consume")
    \cup RequestsOfType("execution-seal") \cup RequestsOfType("judge-challenge")
    \cup RequestsOfType("judge-seal")

(***************************************************************************)
(* Look-ups in a history: the validator's maps.                            *)
(***************************************************************************)
EventsOf(log, type) == {i \in DOMAIN log : log[i].eventType = type}

EventsOfCase(log, type, case) ==
  {i \in EventsOf(log, type) : log[i].caseId = case}

EventsOfCampaign(log, type, corpus, campaign) ==
  {i \in EventsOf(log, type) :
     log[i].corpusId = corpus /\ log[i].payload.campaign = campaign}

(* The assignments one consume event must cover. *)
AssignedTo(log, corpus, split) ==
  {i \in EventsOf(log, "assign") :
     log[i].corpusId = corpus /\ log[i].payload.split = split}

(* The cases behind a set of assignment events. *)
CasesIn(log, roots) == {log[i].caseId : i \in roots}

(***************************************************************************)
(* Identity exclusion (bindIdentity).  An event binds values of identity   *)
(* fields to an owner: an assignment and a truth seal to their case, a     *)
(* legacy record to its case id or, without one, to a pseudo id made of    *)
(* its source digest.  A value has one owner.                              *)
(***************************************************************************)
LegacyOwner(record) ==
  IF record.caseId # None THEN record.caseId
                          ELSE <<"legacy", record.identity["source"]>>

Bindings(e) ==
  CASE e.eventType = "assign" ->
         {[field |-> f, value |-> e.payload.identity[f], owner |-> e.caseId] :
            f \in IdentityFields}
    [] e.eventType = "truth-seal" ->
         {[field |-> f, value |-> e.payload.identity[f], owner |-> e.caseId] :
            f \in TruthFields}
    [] e.eventType = "legacy-quarantine" ->
         {[field |-> b[2], value |-> b[1].identity[b[2]],
           owner |-> LegacyOwner(b[1])] :
            b \in {b \in e.payload.records \X (IdentityFields \cup TruthFields) :
                     b[1].identity[b[2]] # None}}
    [] OTHER -> {}

Agree(b, c) == (b.field = c.field /\ b.value = c.value) => b.owner = c.owner

\* Faulty variant: identities of the legacy import are never compared.
IdentityOkAmongCases(log, e) ==
  \A b \in Bindings(e) :
    \A i \in EventsOf(log, "assign") \cup EventsOf(log, "truth-seal") :
      \A c \in Bindings(log[i]) : Agree(b, c)

IdentityOk(log, e) ==
  \A b \in Bindings(e) :
    /\ \A c \in Bindings(e) : Agree(b, c)
    /\ \A i \in DOMAIN log : \A c \in Bindings(log[i]) : Agree(b, c)

(***************************************************************************)
(* One verdict per event type.                                             *)
(***************************************************************************)
\* Faulty variant: the time of the last event is never carried forward.
ChainOkFromFirst(log, e) == log # <<>> => log[1].issuedAt <= e.issuedAt

ChainOk(log, e) == log # <<>> => log[Len(log)].issuedAt <= e.issuedAt

(* The assignments that share a group value with e stay in e's corpus and  *)
(* split, and with e there are at most cap of them.                        *)
\* Faulty variant: the event itself is not counted.
GroupOkOfPeers(log, e, peers, cap) ==
  /\ Cardinality(peers) <= cap
  /\ \A i \in peers : /\ log[i].corpusId = e.corpusId
                      /\ log[i].payload.split = e.payload.split

GroupOk(log, e, peers, cap) ==
  /\ Cardinality(peers) + 1 <= cap
  /\ \A i \in peers : /\ log[i].corpusId = e.corpusId
                      /\ log[i].payload.split = e.payload.split

SameInstrument(log, g) ==
  {i \in EventsOf(log, "assign") : log[i].payload.instrument = g}

SameFamily(log, g) ==
  {i \in EventsOf(log, "assign") : log[i].payload.family = g}

AssignmentOk(log, e) ==
  /\ EventsOf(log, "legacy-quarantine") # {}
  /\ e.caseId # None /\ e.corpusId # None
  /\ EventsOfCase(log, "assign", e.caseId) = {}
  /\ e.payload.split = "final" => e.payload.custodyMode = "exclusive-custodian"
  /\ GroupOk(log, e, SameInstrument(log, e.payload.instrument), InstrumentCap)
  /\ GroupOk(log, e, SameFamily(log, e.payload.family), FamilyCap)

QuarantineOk(e) ==
  e.caseId = None /\ e.corpusId = None /\ e.payload.records # {}

\* Faulty variant: only a repetition of the whole alias set is refused.
SameAliasesUnreviewed(log, e) ==
  \A i \in EventsOf(log, "review-seal") :
    log[i].payload.aliases # e.payload.aliases

(* No earlier review shares an alias of the property. *)
PropertyUnreviewed(log, e) ==
  \A i \in EventsOf(log, "review-seal") :
    log[i].payload.aliases \cap e.payload.aliases = {}

ReviewSealOk(log, e) ==
  /\ \E a \in EventsOfCase(log, "assign", e.caseId) :
       /\ e.payload.assignmentEvent = a
       /\ log[a].corpusId = e.corpusId
       /\ log[a].payload.split = "fail-safe"
       /\ log[a].payload.identity["source"] = e.payload.source
       /\ log[a].payload.identity["selector"] = e.payload.selector
  /\ e.payload.twoSystems
  /\ e.payload.aliases # {}
  /\ EventsOfCase(log, "review-seal", e.caseId) = {}
  /\ PropertyUnreviewed(log, e)

\* Faulty variant: the candidate may be that of no review.
QuotesReview(log, e) ==
  \E v \in EventsOfCase(log, "review-seal", e.caseId) :
    e.payload.reviewSealEvent = v

(* A fail-safe truth is the outcome of the case's review. *)
AdoptsReview(log, e) ==
  \E v \in EventsOfCase(log, "review-seal", e.caseId) :
    /\ e.payload.reviewSealEvent = v
    /\ e.payload.candidate = log[v].payload.candidate
    /\ e.payload.reviewSealedAt = log[v].issuedAt

TruthSealOk(log, e) ==
  /\ EventsOfCase(log, "truth-seal", e.caseId) = {}
  /\ \E a \in EventsOfCase(log, "assign", e.caseId) :
       /\ e.payload.assignmentEvent = a
       /\ log[a].corpusId = e.corpusId
       /\ log[a].issuedAt <= e.payload.reviewSealedAt
       /\ e.payload.reviewSealedAt <= e.issuedAt
       /\ log[a].payload.split = "fail-safe" => AdoptsReview(log, e)

(* The first release of a corpus freezes it; later ones inherit the freeze. *)
ReleasesOfCorpus(log, corpus) ==
  {i \in EventsOf(log, "source-release") : log[i].corpusId = corpus}

SourceReleaseOk(log, e) ==
  LET cohort == ReleasesOfCorpus(log, e.corpusId) IN
  /\ \E a \in EventsOfCase(log, "assign", e.caseId) :
       /\ e.payload.assignmentEvent = a
       /\ log[a].corpusId = e.corpusId
       /\ log[a].payload.split = "final"
       /\ log[a].payload.custodyMode = "exclusive-custodian"
  /\ EventsOfCase(log, "source-release", e.caseId) = {}
  /\ e.payload.priorReleaseCount = 0
  /\ e.payload.frozenAt <= e.issuedAt
  /\ cohort = {} => e.payload.frozenAt = e.issuedAt
  /\ \A i \in cohort :
       /\ e.payload.frozenAt = log[i].payload.frozenAt
       /\ e.payload.productCodeTip = log[i].payload.productCodeTip

FinalConsumes(log) ==
  {i \in EventsOf(log, "consume") : log[i].payload.split = "final"}

(* The cohort is exactly the assigned cases, in the required number. *)
CohortComplete(log, e) ==
  LET assigned == AssignedTo(log, e.corpusId, e.payload.split) IN
  /\ e.payload.caseEvents # {}
  /\ e.payload.caseEvents = assigned
  /\ IF e.payload.split = "final" THEN Cardinality(assigned) = FinalCohort
                                  ELSE Cardinality(assigned) >= MinCohort

\* Faulty variant: one sealed truth is enough.
SomeTruthSealed(log, cases) ==
  \E c \in cases : EventsOfCase(log, "truth-seal", c) # {}

TruthsSealed(log, cases) ==
  \A c \in cases : EventsOfCase(log, "truth-seal", c) # {}

\* Faulty variant: released, to whatever tip.
ReleasedSomewhere(log, cases, tip) ==
  \A c \in cases : EventsOfCase(log, "source-release", c) # {}

ReleasedTo(log, cases, tip) ==
  \A c \in cases : \E r \in EventsOfCase(log, "source-release", c) :
    log[r].payload.productCodeTip = tip

\* Faulty variant: consumed cases are never recorded.
AlwaysUnconsumed(log, corpus, cases) == TRUE

(* consumedCorpora and consumedCases: a final cohort is consumed once. *)
Unconsumed(log, corpus, cases) ==
  \A k \in FinalConsumes(log) :
    /\ log[k].corpusId # corpus
    /\ CasesIn(log, log[k].payload.caseEvents) \cap cases = {}

\* Faulty variant: a campaign may be consumed again.
ConsumeOkAgain(log, e) ==
  LET cases == CasesIn(log, AssignedTo(log, e.corpusId, e.payload.split)) IN
  CohortComplete(log, e) /\ TruthsSealed(log, cases)

ConsumeOk(log, e) ==
  LET p     == e.payload
      cases == CasesIn(log, AssignedTo(log, e.corpusId, p.split))
  IN
  /\ e.corpusId # None
  /\ EventsOfCampaign(log, "consume", e.corpusId, p.campaign) = {}
  /\ CohortComplete(log, e)
  /\ TruthsSealed(log, cases)
  /\ p.split = "final" => /\ ReleasedTo(log, cases, p.codeTip)
                         /\ Unconsumed(log, e.corpusId, cases)

ExecutionSealOk(log, e) ==
  LET p == e.payload IN
  /\ e.caseId = None
  /\ p.executionCount >= 1
  /\ EventsOfCampaign(log, "execution-seal", e.corpusId, p.campaign) = {}
  /\ \E k \in EventsOfCampaign(log, "consume", e.corpusId, p.campaign) :
       /\ p.consumeEvent = k
       /\ p.manifest = log[k].payload.manifest
       /\ p.codeTip = log[k].payload.codeTip
       /\ log[k].payload.split = "final" => p.executionCount = FinalExecutions
       /\ log[k].payload.split \in {"final", "fail-safe"} =>
            p.productCodeTip = p.codeTip /\ p.attested

(* Challenges and judge seals are unique per corpus, campaign and role. *)
EventsOfRole(log, type, corpus, campaign, role) ==
  {i \in EventsOfCampaign(log, type, corpus, campaign) :
     log[i].payload.role = role}

JudgeChallengeOk(log, e) ==
  LET p == e.payload IN
  /\ e.caseId = None
  /\ \E x \in EventsOfCampaign(log, "execution-seal", e.corpusId, p.campaign) :
       p.executionSealEvent = x
  /\ EventsOfRole(log, "judge-challenge", e.corpusId, p.campaign, p.role) = {}

\* Faulty variant: a role may seal again, over evidence nobody challenged.
JudgeSealOkAgain(log, e) ==
  LET p == e.payload IN
  /\ e.caseId = None
  /\ \E j \in EventsOfRole(log, "judge-challenge", e.corpusId, p.campaign, p.role) :
       p.judgeChallengeEvent = j /\ p.digestOf = j

JudgeSealOk(log, e) ==
  LET p == e.payload IN
  /\ e.caseId = None
  /\ \E j \in EventsOfRole(log, "judge-challenge", e.corpusId, p.campaign, p.role) :
       /\ p.judgeChallengeEvent = j
       /\ p.digestOf = j
       /\ p.evidenceRoot = log[j].payload.evidenceRoot
  /\ EventsOfRole(log, "judge-seal", e.corpusId, p.campaign, p.role) = {}

TypeSpecificOk(log, e) ==
  /\ e.eventType = "assign"            => AssignmentOk(log, e)
  /\ e.eventType = "legacy-quarantine" => QuarantineOk(e)
  /\ e.eventType = "review-seal"       => ReviewSealOk(log, e)
  /\ e.eventType = "truth-seal"        => TruthSealOk(log, e)
  /\ e.eventType = "source-release"    => SourceReleaseOk(log, e)
  /\ e.eventType = "consume"           => ConsumeOk(log, e)
  /\ e.eventType = "execution-seal"    => ExecutionSealOk(log, e)
  /\ e.eventType = "judge-challenge"   => JudgeChallengeOk(log, e)
  /\ e.eventType = "judge-seal"        => JudgeSealOk(log, e)

EventOk(log, e) ==
  ChainOk(log, e) /\ IdentityOk(log, e) /\ TypeSpecificOk(log, e)

(***************************************************************************)
(* validateCorpusRegistry: the whole registry, replayed.                   *)
(***************************************************************************)
Before(log, i) == SubSeq(log, 1, i - 1)

RegistryValid(log) ==
  \A i \in DOMAIN log : EventOk(Before(log, i), log[i])

(***************************************************************************)
(* appendPlaintextEvent: the event a request becomes at the instant now.   *)
(* Nonces, the authority and the copies of issuedAt are left out.          *)
(***************************************************************************)
FirstOf(S) == CHOOSE i \in S : \A j \in S : i <= j
LastOf(S)  == CHOOSE i \in S : \A j \in S : j <= i

OwnEvents(log, type, r) ==
  {i \in EventsOfCase(log, type, r.caseId) : log[i].corpusId = r.corpusId}

\* Faulty variant: the caller's tip is lost when the payload is rebuilt.
DerivedReleaseWithoutTip(log, r, now) ==
  LET own == OwnEvents(log, "assign", r) IN
  [assignmentEvent   |-> IF own = {} THEN 0 ELSE LastOf(own),
   productCodeTip    |-> None,
   priorReleaseCount |-> Cardinality(OwnEvents(log, "source-release", r)),
   frozenAt          |-> now]

(* A release carries only the product tip: the assignment, the number of   *)
(* earlier releases and the freeze come from the registry.                 *)
DerivedRelease(log, r, now) ==
  LET own    == OwnEvents(log, "assign", r)
      cohort == ReleasesOfCorpus(log, r.corpusId)
  IN [assignmentEvent   |-> IF own = {} THEN 0 ELSE LastOf(own),
      productCodeTip    |-> r.payload.productCodeTip,
      priorReleaseCount |-> Cardinality(OwnEvents(log, "source-release", r)),
      frozenAt          |-> IF cohort = {} THEN now
                            ELSE log[FirstOf(cohort)].payload.frozenAt]

Stamp(log, r, now) ==
  [eventType |-> r.eventType, caseId |-> r.caseId, corpusId |-> r.corpusId,
   issuedAt |-> now,
   payload |-> IF r.eventType = "source-release"
               THEN DerivedRelease(log, r, now) ELSE r.payload]

=============================================================================
