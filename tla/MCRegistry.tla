----------------------------- MODULE MCRegistry -----------------------------
(***************************************************************************)
(* What the registry's model-checking instances share: three cases, two    *)
(* corpora, and constructors for the requests they enumerate.              *)
(***************************************************************************)
EXTENDS CorpusRegistry

CONSTANTS c1, c2, c3, k1, k2

Own(c) == IF c = c1 THEN "v1" ELSE IF c = c2 THEN "v2" ELSE "v3"

OwnIdentity(c) == [f \in IdentityFields |-> Own(c)]

Ask(type, case, corpus, payload) ==
  [eventType |-> type, caseId |-> case, corpusId |-> corpus, payload |-> payload]

AssignAs(c, k, split, identity, instrument, family) ==
  Ask("assign", c, k,
      [split |-> split, custodyMode |-> "exclusive-custodian",
       identity |-> identity, instrument |-> instrument, family |-> family])

AssignTo(c, k, split) == AssignAs(c, k, split, OwnIdentity(c), "g", "g")

TruthAs(c, k, a, sealedAt, review, candidate, description) ==
  Ask("truth-seal", c, k,
      [assignmentEvent |-> a, reviewSealedAt |-> sealedAt,
       identity |-> [f \in TruthFields |->
                       IF f = "description" THEN description ELSE Own(c)],
       reviewSealEvent |-> review, candidate |-> candidate])

ConsumeAs(k, campaign, split, tip, roots) ==
  Ask("consume", None, k,
      [campaign |-> campaign, split |-> split, codeTip |-> tip,
       manifest |-> "v0", caseEvents |-> roots])

ExecutionAs(k, campaign, consume, tip, count) ==
  Ask("execution-seal", None, k,
      [campaign |-> campaign, consumeEvent |-> consume, manifest |-> "v0",
       codeTip |-> "t1", productCodeTip |-> tip, executionCount |-> count,
       attested |-> TRUE])

LegacyAs(case, claims) ==
  [caseId |-> case,
   identity |-> [f \in IdentityFields \cup TruthFields |->
                   IF f \in DOMAIN claims THEN claims[f] ELSE None]]

QuarantineAs(records) ==
  Ask("legacy-quarantine", None, None, [records |-> records])

TouchedSource == QuarantineAs({LegacyAs(None, [source |-> "v0"])})

Imported(r) ==
  [eventType |-> r.eventType, caseId |-> r.caseId, corpusId |-> r.corpusId,
   issuedAt |-> 0, payload |-> r.payload]

=============================================================================
