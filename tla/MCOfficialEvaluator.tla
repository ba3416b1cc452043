------------------------- MODULE MCOfficialEvaluator -------------------------
(***************************************************************************)
(* Two evaluations over one registry: a final cohort of one case and a     *)
(* fail-safe cohort of two, both ready to be consumed.                     *)
(***************************************************************************)
EXTENDS OfficialEvaluator

CONSTANTS c1, c2, c3, c4, k1, k2

Own(c) == IF c = c1 THEN "v1" ELSE IF c = c2 THEN "v2" ELSE IF c = c3 THEN "v3" ELSE "v4"

Group(k) == IF k = k1 THEN "g" ELSE "h"

Ask(type, case, corpus, payload) ==
  [eventType |-> type, caseId |-> case, corpusId |-> corpus, payload |-> payload]

AssignTo(c, k, split) ==
  Ask("assign", c, k,
      [split |-> split, custodyMode |-> "exclusive-custodian",
       identity |-> [f \in IdentityFields |-> Own(c)],
       instrument |-> Group(k), family |-> Group(k)])

Review(c, a) ==
  Ask("review-seal", c, k2,
      [assignmentEvent |-> a, source |-> Own(c), selector |-> Own(c),
       candidate |-> "v0", aliases |-> {Own(c)}, twoSystems |-> TRUE])

Truth(c, k, a, review) ==
  Ask("truth-seal", c, k,
      [assignmentEvent |-> a, identity |-> [f \in TruthFields |-> Own(c)],
       reviewSealedAt |-> 0, reviewSealEvent |-> review, candidate |-> "v0"])

Quarantine ==
  Ask("legacy-quarantine", None, None,
      [records |-> {[caseId |-> None,
                     identity |-> [f \in IdentityFields \cup TruthFields |->
                                     IF f = "source" THEN "v0" ELSE None]]}])

Imported(r) ==
  [eventType |-> r.eventType, caseId |-> r.caseId, corpusId |-> r.corpusId,
   issuedAt |-> 0, payload |-> r.payload]

Released ==
  [eventType |-> "source-release", caseId |-> c1, corpusId |-> k1, issuedAt |-> 0,
   payload |-> [assignmentEvent |-> 2, productCodeTip |-> "t1",
                priorReleaseCount |-> 0, frozenAt |-> 0]]

MCGenesis ==
  << Imported(Quarantine), Imported(AssignTo(c1, k1, "final")),
     Imported(AssignTo(c2, k2, "fail-safe")), Imported(AssignTo(c3, k2, "fail-safe")),
     Imported(Review(c2, 3)), Imported(Review(c3, 4)),
     Imported(Truth(c1, k1, 2, 0)), Imported(Truth(c2, k2, 3, 5)),
     Imported(Truth(c3, k2, 4, 6)), Released >>

(* A custodian who consumes the official campaign by hand. *)
ByHand ==
  {Ask("consume", None, k2,
       [campaign |-> "raw-fail-safe", split |-> "fail-safe", codeTip |-> "t1",
        manifest |-> "v0", caseEvents |-> {3, 4}])}

(* A custodian who seals a campaign that was consumed right after Genesis.  *)
SealByHand(corpus, campaign, manifest, count) ==
  Ask("execution-seal", None, corpus,
      [campaign |-> campaign, consumeEvent |-> Len(MCGenesis) + 1, manifest |-> manifest,
       codeTip |-> "t1", productCodeTip |-> "t1", executionCount |-> count,
       attested |-> TRUE])

(* A case that outgrows the fail-safe cohort, and seals by hand: of all the *)
(* final trials, of some of the fail-safe trials.                          *)
OutgrowOrSeal ==
  {AssignTo(c4, k2, "fail-safe"), SealByHand(k1, "final", "v1", FinalExecutions),
   SealByHand(k2, "raw-fail-safe", "v2", 1)}

ManifestOf(mode) ==
  IF mode = "final"
  THEN [cohort |-> mode, codeTip |-> "t1", corpus |-> k1, caseEvents |-> {2},
        eventCount |-> 10, digest |-> "v1"]
  ELSE [cohort |-> mode, codeTip |-> "t1", corpus |-> k2, caseEvents |-> {3, 4},
        eventCount |-> 9, digest |-> "v2"]

Bundle(role, id, of, files) == [role |-> role, id |-> id, of |-> of, files |-> files]

Good(id, mode) ==
  LET m == ManifestOf(mode) IN
  [id |-> id, mode |-> mode, campaign |-> CampaignOf(mode), productTip |-> "t1",
   manifest |-> m,
   source |-> Bundle("source", id, m.digest, SourceFiles(mode)),
   truth  |-> Bundle("truth", id, m.digest, TruthFiles)]

(* Inputs with one mistake each: truth evidence among the sources, the     *)
(* truth of another request or manifest, a file the packets do not name,   *)
(* a receipt that is not of a custody event of the corpus.                 *)
Smuggled(i) == [i EXCEPT !.source.files = @ \cup {"evidence"}]
Replayed(i) == [i EXCEPT !.truth.id = "other"]
Strayed(i)  == [i EXCEPT !.truth.files = @ \cup {"grade"}]
Swapped(i)  == [i EXCEPT !.truth.of = "v0"]
Outdated(i) == [i EXCEPT !.manifest.eventCount = 7]

(* One request, staged well for either cohort or with a mistake. *)
Mistaken ==
  LET final == Good("q", "final")  failSafe == Good("q", "fail-safe") IN
  {final, Smuggled(final), Strayed(final),
   failSafe, Replayed(failSafe), Swapped(failSafe), Outdated(failSafe)}

(* Two evaluators of one campaign, under two requests or under one. *)
Rivals == {Good("q2", "fail-safe"), Good("q3", "fail-safe")}

=============================================================================
