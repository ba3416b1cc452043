-------------------------- MODULE OfficialEvaluator --------------------------
(***************************************************************************)
(* The official deed evaluator: jobs that take an encrypted source and an  *)
(* encrypted truth, run the private product on the source, attest and seal *)
(* what it did in the registry, and only then decrypt the truth and grade  *)
(* (.github/workflows/official-deed-evaluator.yml and the scripts it runs).*)
(*                                                                         *)
(* Jobs of different requests run side by side; jobs of one request share  *)
(* a concurrency group.  A runner may be lost between any two steps, other *)
(* callers append to the registry, merges and appends move main, the       *)
(* dispatcher deletes the input release, and a job may be run again.       *)
(*                                                                         *)
(* A protected append is one step here: AppendWorkflow shows that what     *)
(* main holds changes by one accepted event at a time, and that a receipt  *)
(* verifies only for an event that was committed.  The product is private; *)
(* it is modelled from the phases the workflow asks it for.  A file is     *)
(* known by what it is, a bundle by the files it holds.                    *)
(***************************************************************************)
EXTENDS CorpusEvents

CONSTANTS
  Runs,         \* workflow run ids
  Inputs,       \* what a dispatch of the workflow may ask for
  Requests,     \* the event data other callers of the registry may submit
  Time,         \* the instants an append may be stamped with
  Genesis,      \* the registry when the evaluations begin
  MaxMain,      \* bound: commits on main when others move it
  MaxAttempts,  \* bound: attempts of one run
  MaxPolls      \* polls for the broker's configuration; 100 in the workflow

VARIABLES
  events,    \* the registry that main's latest snapshot holds
  main,      \* the number of commits on main
  release,   \* request id -> the draft release with its ciphertexts
  job,       \* run -> what it is asked for and has done
  broker,    \* run -> the model broker on its runner
  disk,      \* run -> the files on its runner
  attested,  \* execution indexes with a Sigstore attestation
  history,   \* what attempts did: "tried" the cases, "unveiled" the truth
  returned   \* uploaded evidence bundles

registry == <<events, main>>
runner   == <<broker, disk>>
record   == <<attested, history, returned>>
vars     == <<registry, release, job, runner, record>>

Ids == {i.id : i \in Inputs}

-----------------------------------------------------------------------------
(* File sets.  The truth role is a packet per entry and the evidence its   *)
(* receiptFiles and evidenceFiles name.                                    *)
SourceFiles(mode) ==
  {"manifest", "preflight", "source"} \cup IF mode = "final" THEN {"intake-seal"} ELSE {}

TruthFiles == {"packet", "evidence"}

(* What lies under the private root, all of which may be returned. *)
RootFiles ==
  SourceFiles("final") \cup TruthFiles
    \cup {"model-receipts", "smoke", "index", "sigstore", "execution-seal", "grade"}

Files == RootFiles \cup {"source.bundle", "truth.bundle", "bundle-key", "config"}

(* validateEvaluationRequest: each mode has the one campaign name. *)
CampaignOf(mode) == IF mode = "final" THEN "final" ELSE "raw-fail-safe"

Official == {CampaignOf("final"), CampaignOf("fail-safe")}

(* Dispatches and callers submit well-formed values, clocks show instants,  *)
(* and the registry is a valid history when the evaluations begin.         *)
InputOk(i) ==
  /\ i.campaign \in Campaigns /\ i.productTip \in Tips
  /\ i.manifest.corpus \in Corpora /\ i.manifest.cohort \in Splits
  /\ i.manifest.digest \in Values /\ i.manifest.caseEvents \subseteq Nat
  /\ IsFiniteSet(i.manifest.caseEvents)
  /\ i.source.files \subseteq Files /\ i.truth.files \subseteq Files

ASSUME EvaluatorAssumption ==
  /\ MaxPolls \in Nat /\ MaxAttempts \in Nat \ {0}
  /\ \A i \in Inputs : InputOk(i)
  /\ Requests \subseteq Request /\ Time \subseteq Nat
  /\ Genesis \in Seq(Event) /\ RegistryValid(Genesis)

(* No official campaign has been run when the evaluations begin.  Other     *)
(* callers may consume and seal the official campaigns afterwards too: the *)
(* registry does not tell a custodian's event from an evaluator's.         *)
ASSUME OfficialAssumption ==
  \A n \in DOMAIN Genesis :
    Genesis[n].eventType \in {"consume", "execution-seal"} =>
      Genesis[n].payload.campaign \notin Official

Manifest(r) == job[r].input.manifest

Campaign(r) == [corpus |-> Manifest(r).corpus, campaign |-> job[r].input.campaign]

Init ==
  /\ events = Genesis /\ main = 1
  /\ release = [q \in Ids |-> None]
  /\ job = [r \in Runs |-> [status |-> "idle"]]
  /\ broker = [r \in Runs |-> "off"]
  /\ disk = [r \in Runs |-> {}]
  /\ attested = {} /\ history = {} /\ returned = {}

(***************************************************************************)
(* The dispatcher and the service.                                         *)
(***************************************************************************)
Ended == {"success", "failure", "cancelled"}

(* Stage the two ciphertexts on a draft release that targets main's tip. *)
Stage(i) ==
  /\ release[i.id] = None
  /\ release' = [release EXCEPT ![i.id] =
                   [target |-> main, source |-> i.source, truth |-> i.truth]]
  /\ UNCHANGED <<registry, job, runner, record>>

(* The dispatcher deletes the release after a run, also a failed one. *)
Unstage(q) ==
  /\ release[q] # None
  /\ \E r \in Runs : job[r].status \in Ended /\ job[r].input.id = q
  /\ release' = [release EXCEPT ![q] = None]
  /\ UNCHANGED <<registry, job, runner, record>>

(* Entering a request's group cancels the run that was pending in it. *)
Enqueue(r, new) ==
  job' = [s \in Runs |->
            IF s = r THEN new
            ELSE IF job[s].status = "pending" /\ job[s].input.id = new.input.id
                 THEN [job[s] EXCEPT !.status = "cancelled"] ELSE job[s]]

(* A run names the policy tip its release was staged for; one request may  *)
(* be dispatched several times.                                            *)
Dispatch(r) ==
  /\ job[r].status = "idle"
  /\ \E i \in Inputs :
       /\ release[i.id] # None
       /\ Enqueue(r, [status |-> "pending", step |-> "pin", input |-> i, attempt |-> 1,
                      sha |-> main, policy |-> release[i.id].target, polls |-> 0,
                      consume |-> 0, executions |-> 0])
  /\ UNCHANGED <<registry, release, runner, record>>

(* A person re-runs an ended run: same commit, same inputs, a new runner. *)
Rerun(r) ==
  /\ job[r].status \in Ended /\ job[r].attempt < MaxAttempts
  /\ Enqueue(r, [job[r] EXCEPT !.status = "pending", !.attempt = @ + 1])
  /\ UNCHANGED <<registry, release, runner, record>>

\* Faulty variant: the concurrency group is missing.
StartAtOnce(r) ==
  /\ job[r].status = "pending"
  /\ job' = [job EXCEPT ![r].status = "running"]
  /\ UNCHANGED <<registry, release, runner, record>>

Start(r) ==
  /\ job[r].status = "pending"
  /\ \A s \in Runs :
       job[s].status = "running" => job[s].input.id # job[r].input.id
  /\ job' = [job EXCEPT ![r].status = "running"]
  /\ UNCHANGED <<registry, release, runner, record>>

(* Other callers append to the registry, which moves main; so do merges. *)
AppendOf(request) ==
  \E now \in Time :
    LET e == Stamp(events, request, now) IN
    /\ EventOk(events, e)
    /\ events' = Append(events, e)
    /\ main' = main + 1

OtherAppend ==
  /\ main < MaxMain
  /\ \E request \in Requests : AppendOf(request)
  /\ UNCHANGED <<release, job, runner, record>>

MergeCode ==
  /\ main < MaxMain
  /\ main' = main + 1
  /\ UNCHANGED <<events, release, job, runner, record>>

(***************************************************************************)
(* The steps of a running job.                                             *)
(***************************************************************************)
At(r, step) == job[r].status = "running" /\ job[r].step = step

GoTo(r, step) == job' = [job EXCEPT ![r].step = step]

(* The job ends, its runner is cleaned and discarded, and what its steps   *)
(* knew is gone.                                                           *)
End(r, status) ==
  /\ job' = [job EXCEPT ![r].status = status, ![r].step = "pin", ![r].polls = 0,
                        ![r].consume = 0, ![r].executions = 0]
  /\ broker' = [broker EXCEPT ![r] = "off"]
  /\ disk' = [disk EXCEPT ![r] = {}]

Fail(r) == End(r, "failure") /\ UNCHANGED <<registry, release, record>>

(* A lost runner, a failing step, a time limit or a cancel, anywhere. *)
Interrupt(r) == job[r].status = "running" /\ Fail(r)

(* Go on to the next step with these files, or fail the job. *)
Proceed(r, ok, step, files) ==
  IF ok
  THEN /\ GoTo(r, step)
       /\ disk' = [disk EXCEPT ![r] = files]
       /\ UNCHANGED <<registry, release, broker, record>>
  ELSE Fail(r)

(* Pin protected main and validate the opaque request. *)
Pin(r) ==
  /\ At(r, "pin")
  /\ Proceed(r,
       /\ job[r].sha = main /\ job[r].policy = job[r].sha
       /\ job[r].input.campaign = CampaignOf(job[r].input.mode),
       "download", {})

(* Verify the draft release and download the two ciphertexts. *)
Download(r) ==
  /\ At(r, "download")
  /\ LET i == job[r].input IN
     Proceed(r, release[i.id] = [target |-> job[r].policy, source |-> i.source,
                                 truth |-> i.truth],
             "materialize", {"source.bundle", "truth.bundle"})

(* decryptBundle and materializeFileSet: role and request id must match,   *)
(* and no file is replaced.                                                *)
Unpacks(r, bundle, role) ==
  /\ bundle.role = role /\ bundle.id = job[r].input.id
  /\ bundle.files # {} /\ bundle.files \cap disk[r] = {}

Materialize(r) ==
  /\ At(r, "materialize")
  /\ LET source == job[r].input.source IN
     Proceed(r, Unpacks(r, source, "source"), "verify",
             disk[r] \cup {"bundle-key"} \cup source.files)

(* verifyRegistryPreflightSource: the receipt the manifest binds is that   *)
(* of the latest custody event of its corpus at that count.                *)
PreflightOk(m, mode) ==
  /\ m.eventCount \in EventsOf(events, IF mode = "final" THEN "source-release"
                                                         ELSE "truth-seal")
  /\ events[m.eventCount].corpusId = m.corpus

\* Faulty variant: undeclared files of the source set are not noticed.
SourceOkIfDeclared(r) ==
  LET i == job[r].input IN
  /\ i.manifest.cohort = i.mode /\ i.manifest.codeTip = i.productTip
  /\ SourceFiles(i.mode) \subseteq i.source.files
  /\ PreflightOk(i.manifest, i.mode)

(* verify-source: manifest, entries, bytes, preflight, no truth mounted,   *)
(* and exactly the declared files.                                         *)
SourceOk(r) ==
  LET i       == job[r].input
      entries == Cardinality(i.manifest.caseEvents)
  IN /\ i.manifest.cohort = i.mode /\ i.manifest.codeTip = i.productTip
     /\ IF i.mode = "final" THEN entries = FinalCohort ELSE entries >= MinCohort
     /\ i.source.of = i.manifest.digest
     /\ "packet" \notin disk[r]
     /\ PreflightOk(i.manifest, i.mode)
     /\ i.source.files = SourceFiles(i.mode)

VerifySource(r) ==
  /\ At(r, "verify")
  /\ Proceed(r, SourceOk(r), "start-broker", disk[r] \ {"source.bundle"})

StartBroker(r) ==
  /\ At(r, "start-broker")
  /\ GoTo(r, "await-broker")
  /\ broker' = [broker EXCEPT ![r] = "starting"]
  /\ UNCHANGED <<registry, release, disk, record>>

(* fetchCatalog and listen: the broker writes its configuration file, or   *)
(* ends because the catalog is late or lacks the pinned model.             *)
BrokerReports(r) ==
  /\ broker[r] = "starting"
  /\ \/ /\ broker' = [broker EXCEPT ![r] = "up"]
        /\ disk' = [disk EXCEPT ![r] = @ \cup {"config"}]
     \/ /\ broker' = [broker EXCEPT ![r] = "down"]
        /\ UNCHANGED disk
  /\ UNCHANGED <<registry, release, job, record>>

\* Faulty variant: the polls are not counted.
AwaitBrokerForever(r) ==
  /\ At(r, "await-broker")
  /\ IF "config" \in disk[r] THEN Proceed(r, TRUE, "rehearse", disk[r])
     ELSE UNCHANGED vars

(* Poll for the configuration; when it is late the job fails. *)
AwaitBroker(r) ==
  /\ At(r, "await-broker")
  /\ \/ "config" \in disk[r] /\ Proceed(r, TRUE, "rehearse", disk[r])
     \/ /\ "config" \notin disk[r] /\ job[r].polls < MaxPolls
        /\ job' = [job EXCEPT ![r].polls = @ + 1]
        /\ UNCHANGED <<registry, release, runner, record>>
     \/ "config" \notin disk[r] /\ job[r].polls = MaxPolls /\ Fail(r)

(* The synthetic six-image call must be answered and leave its receipt. *)
Rehearse(r) ==
  /\ At(r, "rehearse")
  /\ \E answered \in BOOLEAN :
       Proceed(r, answered, "consume", disk[r] \cup {"smoke", "model-receipts"})

Deed(r, what) ==
  [deed |-> what, run |-> r, attempt |-> job[r].attempt, of |-> Campaign(r)]

ConsumeRequest(r) ==
  LET i == job[r].input IN
  [eventType |-> "consume", caseId |-> None, corpusId |-> i.manifest.corpus,
   payload |-> [campaign |-> i.campaign, split |-> i.manifest.cohort,
                codeTip |-> i.productTip, manifest |-> i.manifest.digest,
                caseEvents |-> i.manifest.caseEvents]]

(* Phase execute-only begins: the product consumes its cohort.  It may go  *)
(* on only with the receipt, which is encrypted to a key of this attempt.  *)
(* The append may be committed and its receipt not arrive, or be refused,  *)
(* stale or lost.                                                          *)
Consume(r) ==
  /\ At(r, "consume")
  /\ \/ /\ AppendOf(ConsumeRequest(r))
        /\ \/ /\ job' = [job EXCEPT ![r].step = "try", ![r].consume = Len(events) + 1]
              /\ history' = history \cup {Deed(r, "tried")}
              /\ UNCHANGED <<release, runner, attested, returned>>
           \/ End(r, "failure") /\ UNCHANGED <<release, record>>
     \/ Fail(r)

(* Three trials of each case, of which some may be missing; then the       *)
(* broker is stopped and its configuration removed.                        *)
Trials(m) == 3 * Cardinality(m.caseEvents)

Try(r) ==
  /\ At(r, "try")
  /\ \E n \in {Trials(Manifest(r)) - 1, Trials(Manifest(r))} :
       job' = [job EXCEPT ![r].step = "rebuild", ![r].executions = n]
  /\ broker' = [broker EXCEPT ![r] = "off"]
  /\ disk' = [disk EXCEPT ![r] = (@ \ {"config"}) \cup {"index"}]
  /\ UNCHANGED <<registry, release, record>>

\* Faulty variant: only the least number of a mode's executions is required.
IndexOfMode(r) ==
  job[r].executions >= IF job[r].input.mode = "final" THEN FinalExecutions ELSE 3 * MinCohort

(* validate-index and validateExecutionIndexForAttestation. *)
IndexOk(r) ==
  /\ IF job[r].input.mode = "final" THEN job[r].executions = FinalExecutions
                                    ELSE job[r].executions >= 3 * MinCohort
  /\ job[r].executions = Trials(Manifest(r))

Rebuild(r) ==
  /\ At(r, "rebuild")
  /\ Proceed(r, SourceOk(r) /\ IndexOk(r), "attest", disk[r])

(* The attestation names the run, the commit and the index. *)
Attestation(r) ==
  [run |-> r, attempt |-> job[r].attempt, signer |-> job[r].sha,
   productTip |-> job[r].input.productTip, of |-> Campaign(r),
   executions |-> job[r].executions]

Attest(r) ==
  /\ At(r, "attest")
  /\ GoTo(r, "seal")
  /\ attested' = attested \cup {Attestation(r)}
  /\ disk' = [disk EXCEPT ![r] = @ \cup {"sigstore"}]
  /\ UNCHANGED <<registry, release, broker, history, returned>>

SealRequest(r) ==
  LET i == job[r].input IN
  [eventType |-> "execution-seal", caseId |-> None, corpusId |-> i.manifest.corpus,
   payload |-> [campaign |-> i.campaign, consumeEvent |-> job[r].consume,
                manifest |-> i.manifest.digest, codeTip |-> i.productTip,
                productCodeTip |-> i.productTip, executionCount |-> job[r].executions,
                attested |-> Attestation(r) \in attested]]

(* Phase seal-only, after gh attestation verify: the product appends the   *)
(* execution seal and keeps its receipt as execution-seal.json.  It may    *)
(* fail after the append, and it may end normally without that file.       *)
Seal(r) ==
  /\ At(r, "seal")
  /\ Attestation(r) \in attested
  /\ \/ /\ AppendOf(SealRequest(r))
        /\ \/ /\ GoTo(r, "sealed")
              /\ disk' = [disk EXCEPT ![r] = @ \cup {"execution-seal"}]
              /\ UNCHANGED <<release, broker, record>>
           \/ End(r, "failure") /\ UNCHANGED <<release, record>>
     \/ Proceed(r, TRUE, "sealed", disk[r])
     \/ Fail(r)

\* Faulty variant: a product that ends normally is taken to have sealed.
AssumeSealed(r) == TRUE

(* test -s execution-seal.json *)
SealPresent(r) == "execution-seal" \in disk[r]

CheckSeal(r) ==
  /\ At(r, "sealed")
  /\ Proceed(r, SealPresent(r) /\ SourceOk(r), "unveil", disk[r])

(* Decrypt truth only after the attested execution seal exists. *)
Unveil(r) ==
  /\ At(r, "unveil")
  /\ LET truth == job[r].input.truth IN
     IF SealPresent(r) /\ Unpacks(r, truth, "truth")
     THEN /\ GoTo(r, "compare")
          /\ disk' = [disk EXCEPT ![r] = @ \cup truth.files]
          /\ history' = history \cup {Deed(r, "unveiled")}
          /\ UNCHANGED <<registry, release, broker, attested, returned>>
     ELSE Fail(r)

(* verify-truth: the frozen manifest's truth, and exactly the files its    *)
(* packets name; then the truth ciphertext and the key are removed.        *)
VerifyTruth(r) ==
  /\ At(r, "compare")
  /\ LET i == job[r].input IN
     Proceed(r, i.truth.of = i.manifest.digest /\ i.truth.files = TruthFiles,
             "grade", disk[r] \ {"truth.bundle", "bundle-key"})

Grade(r) ==
  /\ At(r, "grade")
  /\ Proceed(r, TRUE, "return", disk[r] \cup {"grade"})

\* Faulty variant: only the paths the manifest names are left out.
ReturnAllButManifestPaths(r) == (disk[r] \cap RootFiles) \ {"source", "packet"}

(* encrypt-evidence leaves out the manifest's source and truth paths and   *)
(* every file of the truth set.                                            *)
Returnable(r) ==
  (disk[r] \cap RootFiles) \ ({"source", "packet"} \cup job[r].input.truth.files)

(* Encrypt and upload the evidence, clean up. *)
Return(r) ==
  /\ At(r, "return")
  /\ returned' = returned \cup
       {[run |-> r, attempt |-> job[r].attempt, of |-> Campaign(r), files |-> Returnable(r)]}
  /\ End(r, "success")
  /\ UNCHANGED <<registry, release, attested, history>>

Step(r) ==
  \/ Pin(r) \/ Download(r) \/ Materialize(r) \/ VerifySource(r)
  \/ StartBroker(r) \/ AwaitBroker(r) \/ Rehearse(r)
  \/ Consume(r) \/ Try(r) \/ Rebuild(r) \/ Attest(r)
  \/ Seal(r) \/ CheckSeal(r)
  \/ Unveil(r) \/ VerifyTruth(r) \/ Grade(r) \/ Return(r)

Next ==
  \/ \E i \in Inputs : Stage(i)
  \/ \E q \in Ids : Unstage(q)
  \/ \E r \in Runs : Dispatch(r) \/ Rerun(r) \/ Start(r) \/ BrokerReports(r)
                       \/ Step(r) \/ Interrupt(r)
  \/ OtherAppend
  \/ MergeCode

Spec == Init /\ [][Next]_vars

(* A pending job is started when its group is free; a job's steps follow   *)
(* one another.  Nothing is assumed of the broker, which the job only      *)
(* polls, nor of the dispatcher and other callers.                         *)
FairSpec ==
  Spec /\ \A r \in Runs : WF_vars(Start(r)) /\ WF_vars(Step(r))

-----------------------------------------------------------------------------
Jobs ==
  [status : Ended \cup {"pending", "running"},
   step : {"pin", "download", "materialize", "verify", "start-broker", "await-broker",
           "rehearse", "consume", "try", "rebuild", "attest", "seal", "sealed",
           "unveil", "compare", "grade", "return"},
   input : Inputs, attempt : 1 .. MaxAttempts, sha : Nat, policy : Nat,
   polls : 0 .. MaxPolls, consume : Nat, executions : Nat]

(* What jobs and runners hold; at most one job of a request is running.    *)
TypeOK ==
  /\ events \in Seq(Event) /\ main \in Nat
  /\ release \in [Ids -> {None} \cup
       [target : Nat, source : {i.source : i \in Inputs}, truth : {i.truth : i \in Inputs}]]
  /\ job \in [Runs -> [status : {"idle"}] \cup Jobs]
  /\ broker \in [Runs -> {"off", "starting", "up", "down"}]
  /\ disk \in [Runs -> SUBSET Files]
  /\ \A q \in Ids :
       Cardinality({r \in Runs : job[r].status = "running" /\ job[r].input.id = q}) <= 1

(* The official campaigns; other campaigns are not the evaluator's. *)
Units == [corpus : Corpora, campaign : Official]

UnitsOf(type) ==
  {u \in Units : EventsOfCampaign(events, type, u.corpus, u.campaign) # {}}

DoneTo(deed) == {d.of : d \in {h \in history : h.deed = deed}}

(* The evaluator implements the abstract evaluation: however jobs are lost, *)
(* repeated, duplicated and raced by other callers, each campaign goes     *)
(* through consume, seal, truth and return in this order, each once        *)
(* ("Only after the seal receipt verifies does the workflow decrypt truth   *)
(* and grade", README.md:309).                                             *)
Promise == INSTANCE Evaluation WITH
  consumed <- UnitsOf("consume"), sealed <- UnitsOf("execution-seal"),
  unveiled <- DoneTo("unveiled"), returned <- {b.of : b \in returned}

ImplementsEvaluation == Promise!Spec

(* Truth on a runner follows the seal of this very attempt: the registry   *)
(* holds an execution seal of the consume event this attempt holds the      *)
(* receipt of, over an index this attempt attested at its pinned commit,   *)
(* while from the check of the source to the seal no truth is there at all *)
(* (the order of the steps, test -s execution-seal.json, verify-source).   *)
TruthBehindSeal ==
  \A r \in Runs :
    /\ job[r].status = "running"
    /\ TruthFiles \cap disk[r] # {}
    /\ job[r].step \notin {"verify"}
    => \E x \in EventsOf(events, "execution-seal"), a \in attested :
         /\ events[x].payload.consumeEvent = job[r].consume
         /\ a = Attestation(r)
         /\ events[x].payload.executionCount = a.executions
         /\ events[x].payload.productCodeTip = a.productTip

(* The product tries the cases of a campaign once: when the attempt that   *)
(* consumed it is lost, no later attempt, run or request tries, seals or    *)
(* unveils the campaign again (consume events are unique, main has moved    *)
(* past the commit a re-run is pinned to, receipts are encrypted to a key   *)
(* of one attempt).                                                        *)
CampaignTriedOnce ==
  \A h, g \in history :
    h.of = g.of => <<h.run, h.attempt>> = <<g.run, g.attempt>>

(* Truth is opened for complete trials only: the one execution seal of a    *)
(* campaign whose truth was unveiled counts three trials of every case that *)
(* its consume event lists, over an index that the unveiling attempt       *)
(* attested.  A custodian's seal, which the registry accepts with any      *)
(* count for a fail-safe cohort, opens nothing (validate-index, the        *)
(* refusal of a second seal, test -s execution-seal.json).                 *)
UnveiledTrialsComplete ==
  \A h \in history :
    LET seals == EventsOfCampaign(events, "execution-seal", h.of.corpus, h.of.campaign) IN
    h.deed = "unveiled" =>
      \E x \in seals, a \in attested :
        LET p == events[x].payload IN
        /\ seals = {x}
        /\ p.executionCount = 3 * Cardinality(events[p.consumeEvent].payload.caseEvents)
        /\ a.run = h.run /\ a.attempt = h.attempt /\ a.of = h.of
        /\ a.executions = p.executionCount

(* Returned evidence holds no source and nothing of the truth, and it holds *)
(* what a third party needs to check the evaluation (README.md:310:         *)
(* "Returned evidence excludes the original source/truth payloads").       *)
EvidenceWithoutPayloads ==
  \A b \in returned :
    /\ b.files \cap (TruthFiles \cup {"source"}) = {}
    /\ {"index", "sigstore", "execution-seal", "model-receipts", "grade"} \subseteq b.files
    /\ b.of \in UnitsOf("execution-seal")

(* Every job that is dispatched or run again ends, although its broker may *)
(* never report.                                                           *)
EveryEvaluationEnds ==
  \A r \in Runs : job[r].status \in {"pending", "running"} ~> job[r].status \in Ended

=============================================================================
