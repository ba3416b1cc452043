--------------------------- MODULE CorpusRegistry ---------------------------
(***************************************************************************)
(* The private registry of the custody log: the plaintext event history    *)
(* every encrypted snapshot holds, and appendPlaintextEvent, which turns a *)
(* caller's event data into one new event (scripts/registry-core.mjs).     *)
(*                                                                         *)
(* One action per event type.  Each takes a caller's request, stamps it    *)
(* with the clock of the runner that serves it, adds the fields the        *)
(* workflow owns and records the event when the validator accepts it; a    *)
(* refused request throws and leaves the registry as it was, so it is not  *)
(* a step.  Runners have clocks of their own: any instant may be stamped.  *)
(***************************************************************************)
EXTENDS CorpusHistory

CONSTANTS
  Requests,    \* the event data callers may submit
  Time,        \* the instants a runner's clock may show
  Imports,     \* the histories the one-time migration may have imported
  MaxEvents    \* bound: events in the registry

(* Callers submit well-formed event data; clocks show instants.            *)
ASSUME RequestsAssumption == Requests \subseteq Request /\ Time \subseteq Nat

(* createGenesisState refuses an empty or invalid import.                  *)
ASSUME ImportsAssumption ==
  \A log \in Imports : log \in Seq(Event) /\ log # <<>> /\ RegistryValid(log)

VARIABLE events  \* state.registry.events, oldest first

Init == events \in Imports

RequestsFor(type) == {r \in Requests : r.eventType = type}

(* appendPlaintextEvent: stamp the request, append it, validate the whole  *)
(* registry and keep the result only if it is valid.                       *)
Submit(type) ==
  \E r \in RequestsFor(type), now \in Time :
    LET e == Stamp(events, r, now) IN
    /\ Len(events) < MaxEvents
    /\ EventOk(events, e)
    /\ events' = Append(events, e)

QuarantineLegacy == Submit("legacy-quarantine")

Assign == Submit("assign")

(* The request names a reviewer run; the event recorded is the one derived *)
(* from that run's attested evidence, which the request must agree with.   *)
SealReview == Submit("review-seal")

SealTruth == Submit("truth-seal")

Consume == Submit("consume")

SealExecution == Submit("execution-seal")

ChallengeJudge == Submit("judge-challenge")

SealJudge == Submit("judge-seal")

(* The request names only the product tip; custody is derived (Stamp). *)
ReleaseSource == Submit("source-release")

Next ==
  \/ QuarantineLegacy
  \/ Assign
  \/ SealReview
  \/ SealTruth
  \/ ReleaseSource
  \/ Consume
  \/ SealExecution
  \/ ChallengeJudge
  \/ SealJudge

Spec == Init /\ [][Next]_events

-----------------------------------------------------------------------------
(* The registry is a sequence of well-typed events. *)
TypeOK == events \in Seq(Event)

(* Every identity value has one owner across cases and the legacy import,   *)
(* in whichever order and at whatever distance its two events were appended *)
(* (bindIdentity).                                                         *)
IdentityExclusive == OneOwnerPerIdentity(events)

(* No instrument or source family reaches a second cohort or exceeds its    *)
(* cap (validateAssignment's groups).                                       *)
GroupsConfined == GroupsInOneCohort(events)

(* Events are stamped in order although runners' clocks differ (the time    *)
(* chain).                                                                 *)
TimeOrdered == StampedInOrder(events)

(* The truth of every executed case was sealed, once and for all, before    *)
(* the consume event that let the product run.                              *)
TruthPrecedesExecution == TruthSealedFirst(events)

(* A final case is executed at most once, through whatever campaigns        *)
(* (one-time consumption).                                                  *)
FinalCaseExecutedOnce == FinalExecutedOnce(events)

(* A final execution ran on a complete cohort, each member released once,   *)
(* after one freeze, to the very product tip that was executed              *)
(* (source-release and consume together).                                   *)
ReleasedToExecutedTip == CohortReleasedToTip(events)

(* Every executed fail-safe case rests on a truth that adopted an earlier   *)
(* review of the same source (review-seal, truth-seal and consume).         *)
RefusalReviewedFirst == RefusalsReviewed(events)

(* Two review seals never share a property alias (protectedProperties).     *)
ReviewedPropertyOnce == PropertiesReviewedOnce(events)

(* Every judge seal closes one unbroken chain over the evidence that was    *)
(* challenged, and a role judges a campaign once (validateJudgeSeal).       *)
JudgementChain == JudgedInChain(events)

(* Every source a case was assigned with was untouched: no assigned case   *)
(* has an identity value of the legacy quarantine.  The validator's own    *)
(* message calls an accepted assignment "a unique untouched split          *)
(* assignment" (corpus-registry-semantics.mjs:233).                        *)
AssignedSourcesUntouched ==
  \A a \in EventsOf(events, "assign"), q \in EventsOf(events, "legacy-quarantine") :
    \A b \in Bindings(events[a]), c \in Bindings(events[q]) :
      ~(b.field = c.field /\ b.value = c.value)

=============================================================================
