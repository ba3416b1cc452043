------------------------ MODULE CorpusRegistryProofs ------------------------
(***************************************************************************)
(* Theorems about the registry, for every set of requests, clocks, limits  *)
(* and imported history.  The inductive invariant is RegistryValid(events):*)
(* the registry, replayed from its first event, still validates.  Each      *)
(* property of the registry is what CorpusHistoryProofs finds in a valid    *)
(* history.                                                                 *)
(***************************************************************************)
EXTENDS CorpusRegistry, CorpusHistoryProofs

-----------------------------------------------------------------------------
(* Every step of the registry records one typed, acceptable event. *)
LEMMA StepRecords ==
  ASSUME TypeOK, Next
  PROVE  \E e \in Event : EventOk(events, e) /\ events' = Append(events, e)
<1>1. ASSUME NEW type \in EventTypes, Submit(type)
      PROVE  \E e \in Event : EventOk(events, e) /\ events' = Append(events, e)
  <2>1. PICK r \in RequestsFor(type), now \in Time :
          /\ EventOk(events, Stamp(events, r, now))
          /\ events' = Append(events, Stamp(events, r, now))
    BY <1>1 DEF Submit
  <2>2. r \in Request /\ now \in Nat
    BY RequestsAssumption DEF RequestsFor
  <2>3. QED
    BY <2>1, <2>2, StampIsEvent DEF TypeOK
<1>2. QED
  BY <1>1 DEF Next, QuarantineLegacy, Assign, SealReview, SealTruth,
     ReleaseSource, Consume, SealExecution, ChallengeJudge, SealJudge, EventTypes

(* The registry is always a sequence of well-typed events. *)
THEOREM TypeCorrect == Spec => []TypeOK
<1>1. Init => TypeOK
  BY ImportsAssumption DEF Init, TypeOK
<1>2. TypeOK /\ [Next]_events => TypeOK'
  BY StepRecords, BeforeIsStable DEF TypeOK
<1>3. QED
  BY <1>1, <1>2, PTL DEF Spec

(* The registry always validates as a whole: the snapshot a run writes is   *)
(* one that the next run, the receipt and every verifier will accept        *)
(* (validatePlaintextRegistry before and after each append).                *)
Revalidates == RegistryValid(events)

(* The history passes its own validator, whatever was requested and when. *)
THEOREM RegistryRevalidates == Spec => []Revalidates
<1>1. Init => Revalidates
  BY ImportsAssumption DEF Init, Revalidates
<1>2. TypeOK /\ Revalidates /\ [Next]_events => Revalidates'
  <2> SUFFICES ASSUME TypeOK, Revalidates, [Next]_events PROVE Revalidates'
    OBVIOUS
  <2>1. CASE Next
    BY <2>1, StepRecords, AppendKeepsValid DEF TypeOK, Revalidates
  <2>2. CASE UNCHANGED events
    BY <2>2 DEF Revalidates
  <2>3. QED
    BY <2>1, <2>2
<1>3. QED
  BY <1>1, <1>2, TypeCorrect, PTL DEF Spec

-----------------------------------------------------------------------------
(* The history keeps every promise of custody, in every reachable state.   *)
LEMMA CustodyKept == Spec => []CustodyHolds(events)
<1>1. TypeOK /\ Revalidates => CustodyHolds(events)
  BY ValidHistoriesHold DEF TypeOK, Revalidates
<1>2. QED
  BY <1>1, TypeCorrect, RegistryRevalidates, PTL

(* One owner per identity value, for every history the registry can reach.  *)
THEOREM IdentitiesExclusive == Spec => []IdentityExclusive
<1>1. CustodyHolds(events) => IdentityExclusive
  BY DEF CustodyHolds, IdentityExclusive
<1>2. QED
  BY <1>1, CustodyKept, PTL

(* No group of documents reaches into a second cohort or outgrows its cap.  *)
THEOREM GroupsStayConfined == Spec => []GroupsConfined
<1>1. CustodyHolds(events) => GroupsConfined
  BY DEF CustodyHolds, GroupsConfined
<1>2. QED
  BY <1>1, CustodyKept, PTL

(* Stamps never run backwards, whatever the runners' clocks show.          *)
THEOREM StampsOrdered == Spec => []TimeOrdered
<1>1. CustodyHolds(events) => TimeOrdered
  BY DEF CustodyHolds, TimeOrdered
<1>2. QED
  BY <1>1, CustodyKept, PTL

(* Product output never influences truth: whatever was executed, its truth  *)
(* was sealed before the consume event that let it run.                     *)
THEOREM TruthBeforeExecution == Spec => []TruthPrecedesExecution
<1>1. CustodyHolds(events) => TruthPrecedesExecution
  BY DEF CustodyHolds, TruthPrecedesExecution
<1>2. QED
  BY <1>1, CustodyKept, PTL

(* One-time consumption: no history lets a final case be executed twice,    *)
(* through whatever campaigns and requests.                                 *)
THEOREM FinalCasesExecutedOnce == Spec => []FinalCaseExecutedOnce
<1>1. CustodyHolds(events) => FinalCaseExecutedOnce
  BY DEF CustodyHolds, FinalCaseExecutedOnce
<1>2. QED
  BY <1>1, CustodyKept, PTL

(* A final execution ran on the exact cohort, each member of it released to *)
(* the tip that was executed.                                               *)
THEOREM FinalCohortReleased == Spec => []ReleasedToExecutedTip
<1>1. CustodyHolds(events) => ReleasedToExecutedTip
  BY DEF CustodyHolds, ReleasedToExecutedTip
<1>2. QED
  BY <1>1, CustodyKept, PTL

(* An executed fail-safe case rests on an adopted review of its source.     *)
THEOREM RefusalsReviewedFirst == Spec => []RefusalReviewedFirst
<1>1. CustodyHolds(events) => RefusalReviewedFirst
  BY DEF CustodyHolds, RefusalReviewedFirst
<1>2. QED
  BY <1>1, CustodyKept, PTL

(* A property is reviewed for one case only.                                *)
THEOREM ReviewedPropertiesDistinct == Spec => []ReviewedPropertyOnce
<1>1. CustodyHolds(events) => ReviewedPropertyOnce
  BY DEF CustodyHolds, ReviewedPropertyOnce
<1>2. QED
  BY <1>1, CustodyKept, PTL

(* Judgements close unbroken chains, one per role and campaign.             *)
THEOREM JudgementsChained == Spec => []JudgementChain
<1>1. CustodyHolds(events) => JudgementChain
  BY DEF CustodyHolds, JudgementChain
<1>2. QED
  BY <1>1, CustodyKept, PTL

=============================================================================
