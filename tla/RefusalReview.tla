---------------------------- MODULE RefusalReview ----------------------------
(***************************************************************************)
(* The protected refusal reviewer                                          *)
(* (.github/workflows/protected-refusal-reviewer.yml and its scripts) and  *)
(* the part of the append workflow that turns its evidence into a          *)
(* review-seal event (append-encrypted-registry.yml:54-106).               *)
(*                                                                         *)
(* A job asks two model services about each case of a request.  A case is  *)
(* approved when both approve and their descriptions of the property can   *)
(* be reconciled; the index of all approved cases is attested and uploaded *)
(* as an artifact of the run.  A custodian names a run and a case, and the *)
(* append workflow derives the event from the artifact alone.              *)
(*                                                                         *)
(* A reading is a reviewer's description of a property: per field the text *)
(* it writes and the value it means by it; only texts are ever compared.   *)
(* Call ids and sessions are taken as fresh, artifacts do not expire, and  *)
(* the rendering of pages belongs to the calls.  An append run is two      *)
(* steps, the evidence it finds and the push it ends with: the reviewer's  *)
(* runs go on between them.                                                *)
(***************************************************************************)
EXTENDS CorpusEvents, PropertyIdentity

CONSTANTS
  Runs,         \* workflow run ids
  Inputs,       \* what a dispatch may ask for
  Readings,     \* descriptions of properties the models may return
  Returned,     \* for each of the two services, the models it may say it ran
  Time,         \* the instants an append may be stamped with
  Genesis,      \* the registry when the reviews begin
  MaxMain,      \* bound: commits on main when merges move it
  MaxAttempts,  \* bound: attempts of one run
  MaxCalls,     \* calls of one model for one case; 8 in the code
  MaxCases      \* cases of one request; 50 in the code

(* What a case of a request commits to (validateReviewRequest). *)
Candidates ==
  [case : Cases, corpus : Corpora, assignment : Nat, source : Values,
   selector : Values, refusal : Values]

(* Requests name well-formed candidates, an alias is a digest, clocks show  *)
(* instants, and the registry is a valid history when the reviews begin.   *)
ASSUME ReviewAssumption ==
  /\ MaxCalls \in Nat \ {0} /\ MaxCases \in Nat \ {0} /\ MaxAttempts \in Nat \ {0}
  /\ \A i \in Inputs : i.cases \in Seq(Candidates)
  /\ \A l, m \in Readings : Aliases(AgreedIdentity(l.text, m.text)) \subseteq Values
  /\ Time \subseteq Nat
  /\ Genesis \in Seq(Event) /\ RegistryValid(Genesis)

VARIABLES
  events,     \* the registry that main's latest snapshot holds
  main,       \* the number of commits on main
  append,     \* the review that the running append has evidence of, or None
  job,        \* run -> what it is asked for and has done
  attested,   \* indexes with a Sigstore attestation
  artifacts,  \* registry-evidence artifacts of all runs
  sealed      \* history: the evidence behind each review-seal event

registry == <<events, main, append>>
evidence == <<attested, artifacts>>
vars     == <<registry, job, evidence, sealed>>

Init ==
  /\ events = Genesis /\ main = 1 /\ append = None
  /\ job = [r \in Runs |-> [status |-> "idle"]]
  /\ attested = {} /\ artifacts = {} /\ sealed = {}

(***************************************************************************)
(* The dispatcher and the service.                                         *)
(***************************************************************************)
Ended == {"success", "failure", "cancelled"}

(* A job of which nothing has been done so far. *)
NothingDone(rec) ==
  [rec EXCEPT !.status = "pending", !.step = "pin", !.calls = 0, !.heard = <<>>,
              !.results = <<>>]

(* Entering a request's group cancels the run that was pending in it. *)
Enqueue(r, new) ==
  job' = [s \in Runs |->
            IF s = r THEN new
            ELSE IF job[s].status = "pending" /\ job[s].input.id = new.input.id
                 THEN [job[s] EXCEPT !.status = "cancelled"] ELSE job[s]]

(* A run names the policy tip its release was staged for. *)
Dispatch(r) ==
  /\ job[r].status = "idle"
  /\ \E i \in Inputs, tip \in 1 .. main :
       Enqueue(r, [status |-> "pending", step |-> "pin", calls |-> 0, heard |-> <<>>,
                   results |-> <<>>, input |-> i, attempt |-> 1, sha |-> main,
                   policy |-> tip])
  /\ UNCHANGED <<registry, evidence, sealed>>

(* A person re-runs an ended run: same commit, same inputs. *)
Rerun(r) ==
  /\ job[r].status \in Ended /\ job[r].attempt < MaxAttempts
  /\ Enqueue(r, NothingDone([job[r] EXCEPT !.attempt = @ + 1]))
  /\ UNCHANGED <<registry, evidence, sealed>>

Start(r) ==
  /\ job[r].status = "pending"
  /\ \A s \in Runs :
       job[s].status = "running" => job[s].input.id # job[r].input.id
  /\ job' = [job EXCEPT ![r].status = "running"]
  /\ UNCHANGED <<registry, evidence, sealed>>

MergeCode ==
  /\ main < MaxMain
  /\ main' = main + 1
  /\ UNCHANGED <<events, append, job, evidence, sealed>>

(***************************************************************************)
(* The steps of a running job.                                             *)
(***************************************************************************)
At(r, step) == job[r].status = "running" /\ job[r].step = step

(* The job ends and what its runner held is gone. *)
End(r, status) ==
  job' = [job EXCEPT ![r] = [NothingDone(@) EXCEPT !.status = status]]

Fail(r) == End(r, "failure") /\ UNCHANGED <<registry, evidence, sealed>>

(* A lost runner, a failing step, a time limit or a cancel, anywhere. *)
Interrupt(r) == job[r].status = "running" /\ Fail(r)

Proceed(r, ok, step) ==
  IF ok THEN /\ job' = [job EXCEPT ![r].step = step]
             /\ UNCHANGED <<registry, evidence, sealed>>
  ELSE Fail(r)

\* Faulty variant: main as it was checked out, not as fetched again.
PinCheckout(r) ==
  /\ At(r, "pin")
  /\ Proceed(r, job[r].policy = job[r].sha, "source")

(* The checkout of main, the commit of the run, the requested policy and   *)
(* main as fetched again must be one commit.                               *)
Pin(r) ==
  /\ At(r, "pin")
  /\ Proceed(r, job[r].policy = job[r].sha /\ main = job[r].sha, "source")

(* validateReviewRequest and verify-source: the candidates of this request, *)
(* no case twice, and a source file for each and none besides.             *)
SourceOk(i) ==
  /\ i.bundle.id = i.id
  /\ Len(i.cases) \in 1 .. MaxCases
  /\ S!IsInjective([k \in DOMAIN i.cases |-> i.cases[k].case])
  /\ i.bundle.files = {i.cases[k].case : k \in DOMAIN i.cases}

VerifySource(r) ==
  /\ At(r, "source")
  /\ Proceed(r, SourceOk(job[r].input), "ask")

(* The case under review is the first without a result. *)
Candidate(r) == job[r].input.cases[Len(job[r].results) + 1]

(* The service cannot serve this call now (408, 429, 500, 502 to 504). *)
\* Faulty variant: at its limit the count starts again.
RetryForever(r) ==
  /\ job' = [job EXCEPT ![r].calls = (@ + 1) % MaxCalls]
  /\ UNCHANGED <<registry, evidence, sealed>>

Retry(r) ==
  IF job[r].calls + 1 < MaxCalls
  THEN /\ job' = [job EXCEPT ![r].calls = @ + 1]
       /\ UNCHANGED <<registry, evidence, sealed>>
  ELSE Fail(r)

(* The model approves the exact refusal and describes the property.        *)
Approve(r) ==
  \E reading \in Readings, model \in Returned[Len(job[r].heard) + 1] :
    /\ job' = [job EXCEPT ![r].calls = 0,
                          ![r].heard = Append(@, [model |-> model, reading |-> reading])]
    /\ UNCHANGED <<registry, evidence, sealed>>

(* invokeModel and normalizeAssessment: the next model is called; any      *)
(* other refusal of the call and any other assessment end the job.         *)
Ask(r) ==
  /\ At(r, "ask") /\ Len(job[r].heard) < 2
  /\ Approve(r) \/ Retry(r) \/ Fail(r)

(* What two descriptions amount to, for every two that may be given. *)
Agreement ==
  [left \in Readings |->
     [right \in Readings |->
        [reconciled |-> Reconcilable(left.text, right.text),
         aliases |-> Aliases(AgreedIdentity(left.text, right.text))]]]

AgreementOf(heard) == Agreement[heard[1].reading][heard[2].reading]

Distinct(heard) == heard[1].model # heard[2].model

Result(candidate, heard) ==
  [candidate |-> candidate, heard |-> heard, aliases |-> AgreementOf(heard).aliases]

\* Faulty variant: the index is written after the first case.
ReconcileFirst(r) ==
  /\ At(r, "ask") /\ Len(job[r].heard) = 2
  /\ job' = [job EXCEPT ![r].heard = <<>>, ![r].step = "index",
                        ![r].results = <<Result(Candidate(r), job[r].heard)>>]
  /\ UNCHANGED <<registry, evidence, sealed>>

(* reconcilePropertyIdentity; then the next case, or the index. *)
Reconcile(r) ==
  /\ At(r, "ask") /\ Len(job[r].heard) = 2
  /\ LET heard   == job[r].heard
         results == Append(job[r].results, Result(Candidate(r), heard))
     IN IF Distinct(heard) /\ AgreementOf(heard).reconciled
        THEN /\ job' = [job EXCEPT ![r].heard = <<>>, ![r].results = results,
                          ![r].step = IF Len(results) = Len(job[r].input.cases)
                                      THEN "index" ELSE "ask"]
             /\ UNCHANGED <<registry, evidence, sealed>>
        ELSE Fail(r)

(* buildReviewIndex, again in validate-index: no property twice. *)
IndexOk(results) ==
  \A j, k \in DOMAIN results :
    j # k => ~ Overlapping(results[j].aliases, results[k].aliases)

BuildIndex(r) ==
  /\ At(r, "index")
  /\ Proceed(r, IndexOk(job[r].results), "attest")

Index(r) ==
  [id |-> job[r].input.id, run |-> r, attempt |-> job[r].attempt,
   policy |-> job[r].sha, results |-> job[r].results]

Attest(r) ==
  /\ At(r, "attest")
  /\ attested' = attested \cup {Index(r)}
  /\ job' = [job EXCEPT ![r].step = "upload"]
  /\ UNCHANGED <<registry, artifacts, sealed>>

(* Encrypt the evidence to the registry and upload it, once it verifies.   *)
(* The artifact belongs to the run, whatever becomes of this attempt.      *)
Upload(r) ==
  /\ At(r, "upload") /\ Index(r) \in attested
  /\ artifacts' = artifacts \cup {Index(r)}
  /\ job' = [job EXCEPT ![r].step = "conclude"]
  /\ UNCHANGED <<registry, attested, sealed>>

Conclude(r) ==
  /\ At(r, "conclude")
  /\ End(r, "success")
  /\ UNCHANGED <<registry, evidence, sealed>>

Step(r) ==
  \/ Pin(r) \/ VerifySource(r) \/ Ask(r) \/ Reconcile(r)
  \/ BuildIndex(r) \/ Attest(r) \/ Upload(r) \/ Conclude(r)

(***************************************************************************)
(* A custodian asks the append workflow to seal the review of a case.      *)
(***************************************************************************)

(* What the caller names; the custodian may take any ended run.            *)
References ==
  {[run |-> r, attempt |-> a, id |-> job[r].input.id, tip |-> job[r].sha] :
     r \in {r \in Runs : job[r].status \in Ended}, a \in 1 .. MaxAttempts}

(* The run succeeded on that commit in that attempt, exactly one artifact  *)
(* of the run has the request's name, and its index is that attempt's.     *)
EvidenceFor(ref) ==
  LET named == {x \in artifacts : x.run = ref.run /\ x.id = ref.id} IN
  {x \in named :
     /\ job[ref.run].status = "success"
     /\ job[ref.run].sha = ref.tip /\ job[ref.run].attempt = ref.attempt
     /\ Cardinality(named) = 1
     /\ x \in attested /\ x.attempt = ref.attempt /\ x.policy = ref.tip}

(* derive-review-event: the facts of the review come from the evidence. *)
DerivedReview(result) ==
  [eventType |-> "review-seal",
   caseId |-> result.candidate.case, corpusId |-> result.candidate.corpus,
   payload |-> [assignmentEvent |-> result.candidate.assignment,
                source |-> result.candidate.source, selector |-> result.candidate.selector,
                candidate |-> result.candidate.refusal,
                aliases |-> result.aliases, twoSystems |-> Distinct(result.heard)]]

(* The append workflow pins main and looks the evidence up.  Its reads are *)
(* one step: a push fails if main moved after the pin, and exactly one     *)
(* artifact, of the attempt whose success was read, is what the run had    *)
(* published at that read.  One append runs at a time.                     *)
ResolveEvidence ==
  /\ append = None
  /\ \E ref \in References : \E x \in EvidenceFor(ref) : \E k \in DOMAIN x.results :
       append' = [base |-> main, run |-> ref.run, attempt |-> x.attempt,
                  result |-> x.results[k]]
  /\ UNCHANGED <<events, main, job, evidence, sealed>>

(* The event is stamped, validated and pushed, if main has not moved.  The *)
(* reviewer's runs are not looked at again; last is the attempt that the   *)
(* run has come to by now.                                                 *)
PushReview ==
  /\ append # None /\ main = append.base
  /\ \E now \in Time :
       LET e == Stamp(events, DerivedReview(append.result), now) IN
       /\ EventOk(events, e)
       /\ events' = Append(events, e)
  /\ sealed' = sealed \cup
       {[event |-> Len(events) + 1, run |-> append.run, attempt |-> append.attempt,
         last |-> job[append.run].attempt, result |-> append.result]}
  /\ main' = main + 1 /\ append' = None
  /\ UNCHANGED <<job, evidence>>

(* The event is rejected, the push refused or the append's runner lost. *)
DropAppend ==
  /\ append # None /\ append' = None
  /\ UNCHANGED <<events, main, job, evidence, sealed>>

Next ==
  \/ \E r \in Runs : Dispatch(r) \/ Rerun(r) \/ Start(r) \/ Step(r) \/ Interrupt(r)
  \/ ResolveEvidence \/ PushReview \/ DropAppend
  \/ MergeCode

Spec == Init /\ [][Next]_vars

(* A pending job is started when its group is free; a job's steps follow   *)
(* one another, and every call ends within ten minutes                     *)
(* (AbortSignal.timeout) in one of Ask's ways.                             *)
FairSpec ==
  Spec /\ \A r \in Runs : WF_vars(Start(r)) /\ WF_vars(Step(r))

-----------------------------------------------------------------------------
Heard == [model : Returned[1] \cup Returned[2], reading : Readings]

(* What jobs hold; the calls stay below their limit and a job is never     *)
(* past the index with a case of its request missing.                      *)
TypeOK ==
  /\ main \in Nat
  /\ \A r \in Runs :
       \/ job[r] = [status |-> "idle"]
       \/ /\ job[r].status \in Ended \cup {"pending", "running"}
          /\ job[r].step \in {"pin", "source", "ask", "index", "attest", "upload", "conclude"}
          /\ job[r].input \in Inputs /\ job[r].attempt \in 1 .. MaxAttempts
          /\ job[r].sha \in Nat /\ job[r].policy \in Nat
          /\ job[r].calls \in 0 .. MaxCalls - 1
          /\ Len(job[r].heard) <= 2
          /\ S!Range(job[r].heard) \subseteq Heard
          /\ job[r].step \in {"index", "attest", "upload", "conclude"} =>
               Len(job[r].results) = Len(job[r].input.cases)

(* What a reading says of the fields of an alias; None where it is silent. *)
Says(reading, kind) == [n \in DOMAIN AliasFields[kind] |-> reading.says[AliasFields[kind][n]]]

(* The property both reviewers of a result mean, by this kind of alias. *)
MeantBy(result, kind) ==
  {said \in {Says(result.heard[1].reading, kind)} :
     said = Says(result.heard[2].reading, kind) /\ \A n \in DOMAIN said : said[n] # None}

(* A sealed review says what two different models saw: each alias under    *)
(* which its property is protected is meant by both, in one attempt, and   *)
(* on no identifier that both describe do they differ, however each of     *)
(* them spells (reconcilePropertyIdentity).                                *)
SealedReviewsAgreed ==
  \A s \in sealed :
    LET first == s.result.heard[1]  second == s.result.heard[2] IN
    /\ first.model # second.model
    /\ \A a \in events[s.event].payload.aliases : MeantBy(s.result, a.kind) # {}
    /\ \A f \in Stronger :
         None \in {first.reading.says[f], second.reading.says[f]}
           \/ first.reading.says[f] = second.reading.says[f]

(* One property supports one refusal: no two sealed reviews of different   *)
(* cases are of properties that share all fields of one kind of alias,     *)
(* whoever spelled them and how, in one request or in several (README.md:  *)
(* 335-337: "Reusing that protected property group for another case or     *)
(* title chain is rejected").                                              *)
SharedGroupsRefused ==
  \A s, t \in sealed :
    s.event # t.event =>
      \A kind \in DOMAIN AliasFields : MeantBy(s.result, kind) \cap MeantBy(t.result, kind) = {}

(* What the models write is read as they mean it: two of these readings    *)
(* are of one canonical form in a field exactly when they mean the same    *)
(* there, a field has none exactly when the reading is silent, and what is *)
(* canonical is read as it stands.  What SealedReviewsAgreed and           *)
(* SharedGroupsRefused need of canonicalizePropertyIdentifier, and what    *)
(* WrittenIdentifier's runs examine spelling by spelling.                  *)
ReadAsMeant(readings) ==
  \A f \in IdentityKinds :
    /\ Canonical(f, <<>>) = <<>>
    /\ \A l, m \in readings :
         LET c == Canonical(f, l.text[f])  d == Canonical(f, m.text[f]) IN
         /\ (c = <<>>) <=> (l.says[f] = None)
         /\ (c = d) <=> (l.says[f] = m.says[f])
         /\ Canonical(f, c) = c

(* No attempt begun behind a seal speaks against it: the run of a sealed   *)
(* review published nothing before the sealed index, and what it publishes *)
(* after it comes from attempts that were begun before the push, although  *)
(* a run that uploaded its evidence may be run again at any time and hear  *)
(* other answers ("exact registry evidence artifact missing or             *)
(* duplicated", append-encrypted-registry.yml:82, and the pin of main).    *)
NoEvidenceBehindSeal ==
  \A s \in sealed : \A x \in artifacts :
    x.run = s.run =>
      /\ x.attempt \in s.attempt .. s.last
      /\ x.attempt = s.attempt => s.result \in S!Range(x.results)

(* Every review that is dispatched or run again ends, whatever the model   *)
(* services answer.                                                        *)
EveryReviewEnds ==
  \A r \in Runs : job[r].status \in {"pending", "running"} ~> job[r].status \in Ended

=============================================================================
