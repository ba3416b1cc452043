---------------------------- MODULE CorpusHistory ----------------------------
(***************************************************************************)
(* What a history of the registry promises, stated of the history alone:   *)
(* the relations between its events that validateCorpusRegistry is there   *)
(* to enforce (scripts/corpus-registry-semantics.mjs).  Whoever holds a    *)
(* history, the registry, main's latest ciphertext or a job that decrypted *)
(* it, may ask them of it.                                                 *)
(***************************************************************************)
EXTENDS CorpusEvents

(* The cases the product ran on when execution seal x was issued. *)
ConsumeOf(log, x) == log[x].payload.consumeEvent

CasesExecuted(log, x) == CasesIn(log, log[ConsumeOf(log, x)].payload.caseEvents)

(* Every identity value has one owner across assignments, truth seals and  *)
(* the legacy quarantine, whichever of two events came first: no two cases *)
(* share a source, selector, property, title chain, description or         *)
(* geometry (bindIdentity over the six identity maps).                     *)
OneOwnerPerIdentity(log) ==
  \A i, j \in DOMAIN log :
    \A b \in Bindings(log[i]), c \in Bindings(log[j]) : Agree(b, c)

(* An instrument and a source family stay within one corpus and split and  *)
(* below their caps, so a cohort never leaks into another through a shared *)
(* document (validateAssignment's instrument and family groups).           *)
GroupsInOneCohort(log) ==
  /\ \A i, j \in EventsOf(log, "assign") :
       \/ log[i].payload.instrument = log[j].payload.instrument
       \/ log[i].payload.family = log[j].payload.family
       => /\ log[i].corpusId = log[j].corpusId
          /\ log[i].payload.split = log[j].payload.split
  /\ \A g \in Groups :
       /\ Cardinality(SameInstrument(log, g)) <= InstrumentCap
       /\ Cardinality(SameFamily(log, g)) <= FamilyCap

(* Events are stamped in order although runners' clocks differ: an event   *)
(* never precedes in time one it may refer to (the time chain).            *)
StampedInOrder(log) ==
  \A i, j \in DOMAIN log : i <= j => log[i].issuedAt <= log[j].issuedAt

(* The truth of every executed case was sealed before the consume event    *)
(* that let the product run, and nothing can seal it again later: product  *)
(* output cannot influence truth (consume requires the whole truth-sealed  *)
(* cohort, truth seals are unique).                                        *)
TruthSealedFirst(log) ==
  \A x \in EventsOf(log, "execution-seal") : \A c \in CasesExecuted(log, x) :
    /\ EventsOfCase(log, "truth-seal", c) # {}
    /\ \A t \in EventsOfCase(log, "truth-seal", c) :
         /\ t < ConsumeOf(log, x) /\ ConsumeOf(log, x) < x
         /\ log[t].payload.reviewSealedAt <= log[ConsumeOf(log, x)].issuedAt

(* A final case is executed at most once, whatever campaigns are run and   *)
(* however often the seal is requested (one-time consumption).             *)
FinalExecutedOnce(log) ==
  \A x, y \in EventsOf(log, "execution-seal") :
    /\ log[ConsumeOf(log, x)].payload.split = "final"
    /\ CasesExecuted(log, x) \cap CasesExecuted(log, y) # {}
    => x = y

(* A final execution ran on a complete cohort, each of whose cases was     *)
(* released exactly once, after one common freeze, to the very product tip *)
(* that was executed (source-release and consume together).                *)
CohortReleasedToTip(log) ==
  \A k \in FinalConsumes(log) :
    LET roots    == log[k].payload.caseEvents
        releases == {r \in EventsOf(log, "source-release") :
                       log[r].caseId \in CasesIn(log, roots)}
    IN /\ Cardinality(roots) = FinalCohort
       /\ Cardinality(releases) = FinalCohort
       /\ \A r \in releases :
            /\ r < k
            /\ log[r].payload.productCodeTip = log[k].payload.codeTip
            /\ log[r].payload.frozenAt <= log[r].issuedAt
            /\ \A s \in releases :
                 log[r].payload.frozenAt = log[s].payload.frozenAt

(* Every execution of a fail-safe case rests on a truth seal that adopted  *)
(* the expected failure of an earlier two-system review of the same source *)
(* (review-seal, truth-seal and consume together).                         *)
RefusalsReviewed(log) ==
  \A x \in EventsOf(log, "execution-seal") :
    log[ConsumeOf(log, x)].payload.split = "fail-safe" =>
      \A a \in log[ConsumeOf(log, x)].payload.caseEvents :
        \E v, t \in DOMAIN log :
          /\ a < v /\ v < t /\ t < ConsumeOf(log, x)
          /\ log[v].eventType = "review-seal"
          /\ log[v].caseId = log[a].caseId
          /\ log[v].payload.source = log[a].payload.identity["source"]
          /\ log[t].eventType = "truth-seal"
          /\ log[t].caseId = log[a].caseId
          /\ log[t].payload.reviewSealEvent = v
          /\ log[t].payload.candidate = log[v].payload.candidate

(* A reviewed property backs one case: two review seals never share an     *)
(* alias (protectedProperties in validateReviewSeal).                      *)
PropertiesReviewedOnce(log) ==
  \A v, w \in EventsOf(log, "review-seal") :
    log[v].payload.aliases \cap log[w].payload.aliases # {} => v = w

(* Every judge seal closes an unbroken chain consume, execution seal,      *)
(* challenge, seal of one corpus and campaign, over the evidence that was  *)
(* challenged, and a role judges a campaign once.                          *)
JudgedInChain(log) ==
  \A s \in EventsOf(log, "judge-seal") :
    LET j == log[s].payload.judgeChallengeEvent
        x == log[j].payload.executionSealEvent
        k == log[x].payload.consumeEvent
        About(i) == <<log[i].corpusId, log[i].payload.campaign>>
    IN /\ {j, x, k} \subseteq DOMAIN log
       /\ k < x /\ x < j /\ j < s
       /\ log[k].eventType = "consume"
       /\ log[x].eventType = "execution-seal"
       /\ log[j].eventType = "judge-challenge"
       /\ About(k) = About(x) /\ About(x) = About(j) /\ About(j) = About(s)
       /\ log[j].payload.role = log[s].payload.role
       /\ log[j].payload.evidenceRoot = log[s].payload.evidenceRoot
       /\ \A i \in EventsOf(log, log[s].eventType) :
            About(i) = About(s) /\ log[i].payload.role = log[s].payload.role
            => i = s

(* All of it. *)
CustodyHolds(log) ==
  /\ OneOwnerPerIdentity(log) /\ GroupsInOneCohort(log) /\ StampedInOrder(log)
  /\ TruthSealedFirst(log) /\ FinalExecutedOnce(log) /\ CohortReleasedToTip(log)
  /\ RefusalsReviewed(log) /\ PropertiesReviewedOnce(log) /\ JudgedInChain(log)

=============================================================================
