# Verification of the deed-corpus custody registry

TLA+ models, TLC runs and TLAPS proofs about the protected registry of this
repository: what its histories may hold, how the hosted workflows change it,
and what the evaluation around it may rely on. Paths below are relative to the
repository's root. Read the modules in the order of the table in section 3.

## 1. Inventory

### Components

**Corpus registry semantics** (`scripts/corpus-registry-semantics.mjs`). State:
a list of events `legacy-quarantine, assign, review-seal, truth-seal,
source-release, consume, execution-seal, judge-challenge, judge-seal`, chained
by hash and ordered in time. Operations: validate a whole history
(`validateCorpusRegistry`), append one event. Each event is checked against
everything before it, and nine indices are built on the way. Hard: the rules
relate events that lie far apart and belong to different cases, corpora and
campaigns; any event may come between. Correct when no identity has two owners,
instruments and families stay in one cohort, truth precedes execution, a final
case is executed once and to the tip it was released to, refusals rest on
reviews, and judgements close unbroken chains.

**Workflow-owned fields** (`scripts/registry-core.mjs`, `validateAppendIntent`,
`appendPlaintextEvent`). No state. A caller names an event and the index it was
decided on; the workflow stamps time and nonces, derives all custody fields of a
release from the history, takes the facts of a review from the reviewer's
evidence, and re-validates before and after.

**Append workflow** (`.github/workflows/append-encrypted-registry.yml`,
`scripts/append-encrypted-registry.mjs`, `scripts/verify-index.mjs`). State:
`main` with `registry/index.json` and the ciphertexts, the queue of the
concurrency group, receipt artifacts. Steps: refuse a stale ref, decrypt,
append or reject, attest and upload a receipt, commit and push. Hard: a runner
may be lost anywhere, merges move `main`, runs are repeated on their original
tip, a newer queued run cancels an older one, requests are sent twice. Correct
when `main` only ever grows by one accepted event that was requested for
exactly the index it extends, when success means a commit, and when a committed
event has a receipt.

**Encrypted state, public index and receipts** (`scripts/registry-core.mjs`,
`scripts/decrypt-receipt.mjs`). The chain of envelopes, the snapshots, what a
receipt binds and how a caller verifies it; padding of rejection receipts.

**Genesis migration** (`.github/workflows/migrate-encrypted-genesis.yml`,
`scripts/migrate-encrypted-genesis.mjs`, `anchors.json`). Imports the private
registry once, if it is exactly what the last frozen public anchor commits to.
Shares the concurrency group and `main` with the append workflow.

**Model broker and codex shim** (`scripts/github-models-broker.mjs`,
`scripts/codex-models-shim.mjs`, `scripts/model-receipt.mjs`,
`scripts/model-broker-contract.mjs`). State: a request counter, a file of
receipts, handlers in flight; three files per response path. Hard: handlers
interleave at every await, back off and retry; shims give up on their own; the
broker is killed at the end. Correct when an answer that was used has exactly
one receipt in the evidence, and numbers are never mixed up.

**Official deed evaluator** (`.github/workflows/official-deed-evaluator.yml`,
`scripts/official-deed-evaluator.mjs`, `scripts/official-evaluator-core.mjs`,
`scripts/deed-bundle.mjs`). State: the draft release a dispatcher stages two
ciphertexts on, the queue of each request, the files on each runner, the
attested execution indexes, the returned bundles; it shares `main` and the
registry with everyone who appends. One job: pin `main`, verify and materialise
the source, start the broker, rehearse, consume the cohort, try every case three
times, attest the index, append the execution seal, only then decrypt the truth
and grade, return encrypted evidence. Hard: only runs of one request exclude
each other, a consume cannot be repeated and its job may be lost, the broker may
report late, custodians append to the same registry meanwhile. Correct when
truth is never on a runner before that attempt's own seal is in the registry,
when each campaign is tried once, and when nothing of source and truth returns.

**Protected refusal reviewer** (`.github/workflows/protected-refusal-reviewer.yml`,
`scripts/protected-refusal-reviewer.mjs`,
`scripts/protected-refusal-review-core.mjs`,
`scripts/extract-protected-review-reference.mjs`). State: the queue of each
request, what two models have answered so far, attested indexes, artifacts. Two
models assess each case; their descriptions of the property are brought into a
canonical form, compared and turned into aliases by which the registry
recognises a property again. The append workflow derives a review seal from the
artifact of a run alone. Hard: calls fail and are retried, a model spells an
identifier in many ways, an artifact outlives the attempt that uploaded it.
Correct when a sealed review says what both models meant, however they spelled
it, when one property supports one refusal, and when no attempt begun behind a
seal publishes answers against it.

**Others**: hosted model smoke, the custodian command line, keys and data.

### How they interact

Callers, the evaluator (through the private product) and custodians dispatch the
append workflow; it alone changes the registry after the migration. A review
seal is derived from the reviewer's evidence. The evaluator's consume and
execution seal are two appends with a long computation in between. The broker
serves shims of one evaluation job.

### Hazards

`PROJECT.json` lists them at their lines with the properties that cover them:
races of push and merge, runs lost between two steps, repeated and duplicated
requests, stale indexes, clocks that differ, rules that must hold over any
order of nine event kinds, caps, interleaved request handlers, retries that
outlive their caller, a cohort that can be consumed only once by jobs that can
be lost, identifiers that are compared as texts.

## 2. Plan

Order of work; each step is checkable by itself.

1. `CorpusEvents`, `CorpusHistory`, `CorpusRegistry`: the semantics, and what a
   history promises. *(done)*
2. `CorpusEventsProofs`, `CorpusHistoryProofs`: every valid history keeps every
   promise; `CorpusRegistryProofs`: so does the registry. *(done)*
3. `AppendWorkflow`, implementing `CorpusRegistry`. *(done, the refinement and
   every safety property proved)*
4. `GenesisMigration` beside it. *(done, the refinement and every property
   proved)*
5. `ModelBroker`. *(done, every safety property proved)*
6. `Evaluation`, `OfficialEvaluator`: the truth barrier, jobs lost between
   consume and seal, over the registry's own rules. *(done, the refinement and
   every safety property proved)*
7. `PropertyIdentity`, `WrittenIdentifier`: canonical identifiers against a
   reference grammar; `RefusalReview`: the reviewer's job, composed with the
   registry's alias rule. *(done, every safety property of the reviewer proved)*
8. The hosted model smoke and the padding arithmetic stay outside (section 8).

Abstract specifications: `CorpusRegistry` is the abstract specification of the
custody workflows (3 and 4 implement it), `Evaluation` that of the official
evaluator (6 implements it).

The promises are stated of a history, not of the registry's variable, so that one
theorem about valid histories serves the registry, the ciphertexts on `main`, the
evaluator and the reviewer. *(done, section 6)*

## 3. Modules

| module | models |
| --- | --- |
| `CorpusEvents` | event vocabulary, each validator as one predicate on a history and a candidate event, and the stamping of requests |
| `CorpusHistory` | what a history promises: custody as relations between its events |
| `CorpusRegistry` | the registry as one variable and one action per event type; its properties are these promises |
| `CorpusEventsProofs` | lemmas about histories and verdicts that all proofs share |
| `CorpusHistoryProofs` | TLAPS proofs that a history the validator accepts keeps all of them |
| `CorpusRegistryProofs` | TLAPS proofs about `CorpusRegistry`: types, re-validation, each promise |
| `MCRegistry`, `MCRegistryCustody`, `MCRegistryIdentity` | constants for TLC: shared event makers, and small worlds with the requests that may be made in them |
| `AppendWorkflow` | workflow runs, `main`, receipts; one action per step |
| `AppendWorkflowProofs` | TLAPS proofs about it: custody, receipts, the index, the refinement of `CorpusRegistry`, what its ciphertexts hold |
| `MCAppendWorkflow` | its constants |
| `GenesisMigration` | migration runs added to `AppendWorkflow`, from an empty index |
| `GenesisMigrationProofs` | TLAPS proofs about it: anchors, the one genesis, the refinement of `CorpusRegistry`, what its ciphertexts hold |
| `MCGenesisMigration` | its constants |
| `ModelBroker` | broker handlers, shims and the files they write |
| `ModelBrokerProofs` | TLAPS proofs about it: numbers, receipts and files |
| `MCModelBroker` | its constants |
| `Evaluation` | what an evaluation promises of each campaign: consume, seal, truth, return, once each and in this order |
| `OfficialEvaluator` | evaluator jobs, releases, brokers and the files on runners; implements `Evaluation` |
| `OfficialEvaluatorProofs` | TLAPS proofs about it: the truth barrier, one trial, the refinement of `Evaluation`, the registry under it |
| `MCOfficialEvaluator` | its constants: a registry ready for two campaigns, requests well staged or with one mistake |
| `PropertyIdentity` | canonical identifiers, aliases, reconciliation of two descriptions |
| `WrittenIdentifier` | a deed's identifier written word by word beside what it means: the reference for the canonical form |
| `MCWrittenIdentifier` | its constants: numbers, numerals and names easily taken for one another |
| `RefusalReview` | reviewer jobs, model calls, artifacts, and review seals derived from them |
| `RefusalReviewProofs` | TLAPS proofs about it: what a run publishes beside a seal, and what a sealed review says |
| `MCRefusalReview`, `MCReviewAttempts` | its constants: requests over two cases, readings of two properties, and that these are read as they are meant |

### Correspondence

*Registry.* `events` is `registry.events`. The functions of the validator are
predicates of the same name: `validateAssignment` is `AssignmentOk(log, e)`,
and so on; `EventOk` is the loop body of `validateCorpusRegistry`,
`RegistryValid` the loop. The indices the code builds (`assignments`, `truths`,
`instruments`, ...) are set comprehensions over the history (`EventsOf`,
`EventsOfCase`, `SameInstrument`, `FinalConsumes`). An action is one protected
append of its event type: a request, a clock reading, stamping (`Stamp`),
validation, append; a refused request leaves the registry as it is and is not a
step.

*Append workflow.* `main` is the list of commits, each the index it carries;
`run[i]` is a workflow run with its tip (`github.sha`), request, step and
attempt; `receipts` the uploaded artifacts; `succeeded` the attempts that
concluded as success. The steps of the yml file are `CheckRef`, `AppendEvent`
(the whole script: freshness, stamping, acceptance or rejection, the receipt's
own validation, writing and re-validation), `UploadReceipt`, `Reject`, `Push`,
`PushRefused`, `Conclude`. `Interrupt` is a lost runner or any failing step.

*Migration.* `Migrate` is the script and the workflow's refusal before it.

*Broker.* `Receive`, `Complete`, `Retryable`, `FailCall` and `Retry` cut the
request handler at its awaits; `Launch`, `Accept` and `KeepReceipt` cut the
shim between the files it writes.

*Evaluator.* `job[r]` is a run with its input and step, `disk[r]` the files on
its runner by what they are, `release` the draft release by request. The steps
of the yml file are the actions of `Step`, in their order; `SourceOk` is
`verify-source`, `IndexOk` `validate-index`, `Returnable` the list
`encrypt-evidence` computes. `Consume` and `Seal` are protected appends: they
stamp a request, ask `CorpusEvents` for the verdict and move `main`. `history`
records what attempts did; no action reads it.

*Reviewer.* `job[r].heard` holds the answers to the case under review,
`results` the approved cases. `Ask` is one model call with its outcomes
(`Approve`, `Retry`, `Fail`), `Reconcile` the comparison, `BuildIndex` the check
over all cases, `EvidenceFor` what the append workflow accepts as evidence of a
run. An append that derives a review is cut in two: `ResolveEvidence` is what it
looks up before it derives the event, `PushReview` the append and push,
`DropAppend` its end without one (a rejection, a refused push, a lost runner); the
reviewer's runs go on between them. A reading has, per field, a text and the
value meant by it: actions use texts, properties compare what is meant.

*Identifiers.* `Canonical(field, text)` is `canonicalizePropertyIdentifier`;
its stages are operators (`Unlabelled`, `TypedPieces`, `SubdivisionPieces`,
`Trimmed`, `Numeral`). Regular expressions over a text of words are operators
on the sequence of its words. `WrittenIdentifier` writes an identifier by a
grammar of spellings that is not taken from the code, and keeps its meaning.

### Abstractions

- A hash of an event is its position; of an index, an envelope or a prefix of
  the registry, the value itself. Hashes are collision-free.
- Payload fields that no cross-event rule reads are left out; fields of one kind
  that are treated alike share a small set (identity values, groups).
- Callers' fields are well formed. A legacy record without a case is owned by
  its own marker (the code's owner is derived from the first twelve digits of
  its source hash, so two such records with equal digits would be one owner).
- Property identifier commitments are left out: they decide which of two errors
  a reused property is reported with.
- In `OfficialEvaluator` a protected append is one step: `AppendWorkflow` shows
  what its steps amount to. In `RefusalReview` it is two, since what it reads of
  the reviewer's run may be stale at the push. Its own reads are one step: a push
  fails if `main` moved after the first of them, and a run that has one artifact,
  of the attempt that was read as a success, had that one when it was read. The
  registry's preflight
  receipts are taken as genuine. The private product is modelled from the phases
  the workflow asks it for.
- Texts of identifiers are sequences of words after case, accents and
  punctuation were normalised. Which words are numbers, tens, numerals and digits
  is a constant, and so is which words begin with a label or with NO and what is
  then left of them (`AfterLabel`): no pattern of a label asks for a word's end.
- Call ids and sessions are fresh; artifacts of all attempts of a run stay
  listed under the run; rendering of pages belongs to the calls; the release a
  reviewer request came from is not followed.
- Encryption is ideal; two encryptions of one history differ by run and attempt.
- Artifacts do not expire (the code keeps receipts one day); receipts that were
  downloaded do not either.
- `FinalCohort` (50), `MinCohort` (20), `FinalExecutions` (150), the caps (2 and
  5) and `MaxAttempts` (8) are constants.

## 4. Runs

Every cfg turns the deadlock check off and says why: the bounded registry and
the finite set of runs and calls come to an end.

| run | world | asks |
| --- | --- | --- |
| `registry_custody` | three imported histories: a final cohort of two with a third case, two campaigns and tips; two refusal cases with overlapping reviews and two candidates; a tuning cohort, two campaigns, two roles, callers quoting any event; up to 11 events | custody before execution, once only, to the released tip, in order of time; execution rests on an adopted review, a property is reviewed once; judgement chains |
| `registry_identity` | three cases, two corpora, shared values, instruments, families, late legacy imports | exclusive identities, confined and capped groups |
| `registry_quarantine` | the same | *violated*: see section 7 |
| `append_workflow` | two runs, two attempts each, two competing requests, two clock values, merges | the refinement of `CorpusRegistry`, freshness, success, receipts, rejections, the index |
| `genesis_migration` | two runs of either kind, two attempts, an anchored private registry that may be behind or ahead | the refinement from an empty index, anchors, one genesis |
| `model_broker` | two calls, one malformed, two paths, two attempts, broker stopped anywhere, fairness | receipts and files; every request ends |
| `official_mistakes` | one run, two attempts, seven requests of which five have a mistake, a case that outgrows the cohort, a custodian who seals by hand, merges | truth behind the seal and behind complete trials, what returns |
| `official_rivals` | two runs of one request or of two of one campaign, a custodian who consumes by hand, fairness | the refinement of `Evaluation`, one trial of a campaign; every job ends |
| `written_identifiers` | every identifier of up to four words after its label | the canonical form is what is meant, and final |
| `written_labels` | lots, with the names NORTH and LOTUS | *violated*: see section 7 |
| `review_property` | two runs, two requests, six descriptions of two properties, a service that answers with the other's model | sealed reviews are agreed on, one property supports one refusal |
| `review_attempts` | one run of two cases, two attempts, two calls per model, mistaken requests, merges, fairness | nothing published behind a seal speaks against it; every review ends |

### Why the bounds are enough

A registry rule relates at most three cases or two campaigns: the cohort, a case
outside it and a repetition. Each registry world fixes by its imported history
what it does not ask about and leaves open every order of what it does. Cohorts
of two keep "all" and "some" apart, caps of two keep "at the cap" and "below"
apart; three cases can exceed both. `registry_custody` reaches both execution
seals and everything that may be tried after them; its worlds have a corpus
each, so that no request of one is acceptable in another.

In `append_workflow` two runs suffice for every race of two and for a lost run
whose index is used by another; the concurrency group keeps a third from
running. Each replaces the other while it is pending, and two attempts cover the
re-run of what failed, succeeded or was cancelled. Two clock values give equal,
increasing and decreasing clocks; the genesis carries the later one, so a clock
behind the migration's occurs. Three commits leave room for a merge before,
between and after pushes: `MaxCommits` bounds merges only. `MaxEvents` bounds
the registry above what two runs can append.

In `model_broker` two calls interleave at every await; two attempts include a
retry and the refusal of the next one; two paths let calls collide or not.

In `official_rivals` a campaign has at most three who want to consume it: two
jobs, whose steps interleave freely when their requests differ, and a custodian.
One attempt each suffices, since a re-run is a rival that is pinned to an older
commit; `official_mistakes` has re-runs too, and a cohort of one and of two, so
that a wrong number of trials shows. `MaxPolls` of one has a poll that fails, one
that succeeds and a last one. `MaxMain` bounds merges only: appends pass it. The
custodian's seals of `official_mistakes` name the first event after the import,
which is a job's consume event: one counts all trials of the final cohort, the
other one trial of the fail-safe cohort of two, and either may come before a job's
own, between that and the check for it, or after.

`written_identifiers` is exhaustive up to its word limit over a vocabulary with a
digit, a tens word, a unit, a zero, a Roman numeral of two letters and
a letter that is one; a rule of the code looks at most two words ahead. The
readings of `review_property` say one lot three times in different words, once
with its parcel, the parcel alone, another lot, and too little; two cases are
what one alias rule relates. In `review_attempts` `MaxCalls` of two has a retry
and a last call, two cases a first and a last. Lost and repeated attempts need
one run, and two attempts have a re-run before, during and after the append that
seals the first; two runs of one request queue in `review_property`.

## 5. Fairness

`ModelBroker!FairSpec` assumes that the event loop serves each handler: every
attempt ends within ten minutes (`AbortSignal.timeout`) and every back-off within
two. Shims and the broker's end are not assumed to do anything. `OfficialEvaluator!FairSpec` and
`RefusalReview!FairSpec` assume that a pending run starts when its request's
group is free and that the steps of a job follow one another; every wait of a
step is bounded by the code (polls of the configuration, `AbortSignal.timeout`
of a call, the number of calls). Nothing is assumed of brokers, dispatchers,
custodians or what model services answer.

## 6. Proofs

The theorems hold for every choice of requests, clocks, cases, runs, calls,
limits and imported history. They rest on the assumptions each module names, and
every run evaluates them for its constants:

- `CorpusEvents`, `CorpusRegistry`: requests are well-typed, every imported
  history is a valid history of well-typed events, limits are positive, `None`
  is no value.
- `WorkflowAssumption`: the same of the workflow's requests and of the genesis,
  which is not empty; clocks are natural numbers.
- `AnchorsAssumption`: there is an anchor, each commits to a history of at least
  one event, and the last to the registry that is migrated.
- `BrokerAssumption`: at least one attempt is allowed, `None` is no call.
- `EvaluatorAssumption`: an input is what `validateEvaluationRequest` lets pass
  (`InputOk`), requests of others are well-typed.
- `OfficialAssumption`: the registry holds no consume or seal of an official
  campaign when the evaluations begin. It is used for the initial state of the
  refinement only. Of other callers nothing is assumed: they may consume and seal
  official campaigns, since the registry's own rules do not tell an evaluator's
  event from a custodian's.
- `ReviewAssumption`: the registry is a valid history of well-typed events when
  the reviews begin; at least one attempt, call and case are allowed; a request
  lists cases of the shape `validateReviewRequest` lets pass (`Candidates`; a file
  of another shape ends the job at `verify-source`, as `Fail` does); the alias two
  readings agree on is a value, as the code's is a digest; clocks are natural
  numbers. The typing conjuncts are what makes a derived review seal a well-typed
  event. `SpelledAssumption`, of the run
  `review_attempts`, is that the hypothesis of two theorems about reviews holds
  of the readings TLC uses.

### The registry

- `TypeCorrect`: the history is a sequence of well-typed events. Stamping is the
  part that needs an argument: a derived release quotes fields of an earlier
  assignment, which has to exist or be absent as `None`.
- `RegistryRevalidates`: the history always passes its own validator. The code
  re-validates the whole list before and after each append; the validator reads,
  for each event, only the events before it, so `RegistryValid` is preserved by
  appending one accepted event (`BeforeIsStable`, `AppendKeepsValid`). This is
  the inductive invariant of the registry: together with well-typedness it says
  of each event that it was accepted on the events before it (`AcceptedOn`).
- Every other theorem of the registry is a promise of `CorpusHistory`, and
  follows from these two by `ValidHistoriesHold`.

`CorpusEventsProofs` holds the lemmas about verdicts and appends that the workflow
and the evaluator, which record events by the same operators, need as well.

`ValidHistoriesHold`, of `CorpusHistoryProofs`, says it of any history of
well-typed events that passes the validator, with no specification in sight: all
relations between events follow from verdicts that each look at one event and what
came before it. It is the theorem that the components below share. Its lemmas
follow references. A hash in a payload is only known to name an event of the
history its event was accepted on, so each argument reads a verdict, moves what it
says of `Before(h, i)` to `h` (`NamedBefore`), and goes on from the event found.

- `OwnersExclusive` (theorem `IdentitiesExclusive`): the agreement of two bindings
  is symmetric, and the later event was checked against the earlier.
- `StampsInOrder` (`StampsOrdered`): each event is checked against its neighbour;
  order of any two follows by a least counterexample, `NeighboursOrdered`, over the
  well-founded order of the naturals.
- `TruthBeforeProduct` (`TruthBeforeExecution`): an execution seal names an earlier
  consume event (`SealedAfterConsume`), which covers assignments whose truth was
  sealed before it (`ConsumedCohort`); a case's truth is sealed once
  (`OncePerCase`), so that seal is the only one; time is in order.
- `FinalCasesOnce` (`FinalCasesExecutedOnce`): a case is assigned once, so two
  executions that share one are of the same split; final cohorts are disjoint
  (`FinalCohortsDisjoint`) and a consume event is sealed once (`SealedOnce`).
- `ChainsUnbroken` (`JudgementsChained`): judge seal, challenge, execution seal and
  consume event, each found before the one that names it, of one corpus and
  campaign; a role seals once (`JudgedOnce`).
- `ReviewsBehindRefusals` (`RefusalsReviewedFirst`): the truth of a consumed
  fail-safe case adopted a review (`TruthAdoptsReview`) of the source the case was
  assigned with (`ReviewOfAssignedSource`).
- `AliasesDistinct` (`ReviewedPropertiesDistinct`): the later of two reviews was
  compared with the earlier.

The last part counts. The validator compares a new event with a `Cardinality`
over the events before it; a promise of the whole history needs that the set it
counted is the one it becomes.

- `CohortsClosed` (`GroupsStayConfined`): the greatest member of a group was
  accepted on all the others (`AcceptedAmongPeers`), so the group is at most one
  larger than what was below the cap, and of the cohort its members were compared
  with.
- `CohortsReleased` (`FinalCohortReleased`): an execution names a consume event,
  which was accepted on a cohort of exactly `FinalCohort` releases; releases of a
  case are unique, of the corpus its assignment names (`ReleasedInItsCorpus`) and
  share one freeze (`FreezeShared`), so the releases that were counted are the
  cohort's.

### The append workflow

The properties speak of `main` and of receipts; neither says what a run between
two steps holds, and a push commits just that. The inductive invariant `Custody`
adds it: a run past its check is pinned to a commit of `main`; a run that may
push has an index that extends the index of that commit by one accepted event of
its own request, and a receipt of it; every receipt tells of such an append on its
signer's commit (`AppendTrue`); every envelope of `main` beyond the genesis has
its receipt; and attempts move forward, so that no two receipts are of one
attempt. A commit is never taken back (`Grows`), which keeps all of it true while
others push; a push succeeds only on the commit its run is pinned to, which makes
the new tip the index it holds.

- `QueueTypeCorrect`, `EnvelopesAnswerPrefix`, `SuccessesCommitted`,
  `CommitsReceipted`, `VerifiedCommitted`, `IndexValidates` follow from
  `Custody` in every state; `VerifiedCommitted` also needs that two receipts of
  one envelope are one receipt.
- `RejectedStaysRejected` needs one thing more, `RefusalsTrue`: what an attempt has
  decided at its append step and what its receipt says are about the same index,
  the one of its commit, and no later step decides again (`KeepsDecision`). A
  rejected attempt never pushes (`RejectedLeavesNothing`), and by `Custody` an
  envelope on `main` has the receipt of an accepted append.
- `WorkflowImplementsRegistry`: a push of an accepted event is the registry's
  action of that event type on the committed history (`PushSubmits`), every other
  step, merges and rejections included, leaves it alone (`OthersStutter`).
- `HistoriesStayInCustody`: each ciphertext a custodian may decrypt, of `main` or
  of a receipt of an append, is a history that keeps every promise. Refinement
  alone does not give it, because it speaks of the tip and of nothing a receipt
  holds. `CiphertextsValid` is the invariant: an index is validated as a whole
  before it is encrypted and pushed, and extended only by what was accepted on it
  (`ExtendedValid`); an append that is refused at its push leaves a receipt of such
  a history all the same (`ReceiptedValid`).
- `NoUpdateLost`: the index at one commit is a prefix of the index at each later
  one (`NothingRewritten`), so a push never drops what a rival had pushed. It needs
  `Custody`, which pins the index a run holds to the commit it checked.

### The genesis migration

`Anchored` says of every index on `main` that each history in it is bound to all
anchors, and of a run past its check what it has in its hands: an append of one
accepted event to the index of its commit, or, if that index is empty, the
anchored registry. Append runs and migrations share commits and the group, so
both are in one invariant: an append run fails on an empty index, so nothing but
a migration ever writes a first event, and a migration that was checked on an
empty index may push only on that very commit, where it cannot meet a genesis.

- `AnchorsBoundForGood`: a history bound to the anchors stays bound as it grows
  (`BindsGrown`), and the only history that is not grown is the one
  `createGenesisState` compared with the last anchor.
- `GenesisCommittedForGood`: every push extends the index or follows an empty one.
- `CustodyImplementsRegistry`: the import is the registry's initial history, each
  accepted push one of its actions, everything else a stutter.
- `MigratedHistoriesStayInCustody`, `NoMigratedUpdateLost`: the same two results
  with migrations beside appends, from the empty index on. What a checked migration
  holds is the anchored history (`CommittedValid`), which the code validates before
  it commits it.

### The model broker

`Evidence` ties handlers, counter, receipts and files together: a handler has its
number from the moment it has read its request until it ends, numbers are at most
the counter and differ between calls; a handler has answered exactly when its
receipt is in the file; a shim that kept an answer got it from such a handler;
and each file of a path is of the call that wrote its prompt. `FilesOfOneCall`
and `UsedAnswersAreLogged` are not inductive alone: both depend on where a call
that is still running stands. `BrokerTypeCorrect`, `ReceiptsApart`,
`UsedAnswersLogged` and `FilesMatch` follow.

### The official evaluator

`Custody` (the evaluator's) says for each step of a job what is on its runner
(`DiskFits`: truth files only from the unveiling on, the index and the receipt
from the steps that make them) and on record (`RecordFits`: the consume event it
holds is in the registry, the trials are its own, the attestation and the seal
name its index); for each deed in the history that it belongs to an attempt that
got so far, or ended; for each unveiling that a seal of its campaign counts all
trials, over an index that this attempt attested (`SealedComplete`); and for each
returned bundle that it is clean and of an unveiled campaign. The
runner's part is needed because truth is opened two steps after the seal was
looked for, and other callers append between; the deeds' part because the
registry refuses a second consume of one *campaign*, and only the deeds say which
*attempt* the first one was.

- `TruthStaysBehindSeal`, `CampaignsTriedOnce`, `EvidenceIsClean`,
  `EvaluatorTypeCorrect` follow from it.
- `TruthBehindCompleteTrials`: the seal of an unveiled campaign counts all trials,
  and it is the only one of that campaign. `Custody` has the first half, which is
  about the job's own seal (`OwnSealComplete`). The second is the registry's: a
  campaign is sealed once (`CampaignSealedOnce`), so a custodian's incomplete seal,
  which the registry accepts, keeps the evaluator's out and the truth closed.
- `EvaluatorImplementsEvaluation`: of each campaign, a consume, seal, unveiling
  and return maps to the promised step of that name, appends of others to the
  promise's own environment step, everything else stutters.
- `EvaluatedUnderCustody`: with jobs and other callers appending to one registry,
  its history stays valid (`ValidityKept`) and so keeps every promise
  (`ValidHistoriesHold`).
- `FinalCasesStayTriedOnce`: two attempts that tried one final case are the same
  attempt, also when they are of two campaigns. The registry's promise is that
  final cohorts are disjoint; that each consume event of a campaign belongs to one
  attempt is `Custody`. Neither says it alone: the registry does not know attempts,
  and the deeds do not know which cases a campaign covers.
- `UnveilingsOnRecord`: where a job has opened the truth, the history shows, in this
  order, a truth seal of each case, the consume event and an execution seal of that
  campaign. `TruthStaysBehindSeal` is about the runner's own seal; this one is what
  an auditor can check afterwards from the registry alone.

### The refusal reviewer

`Reviewed` follows a result from two answers to the registry: a job at a step
holds what that step needs and only results that two different models agreed on;
an artifact is of a dispatched run, for its request, with such results only; an
append that has looked at evidence knows that its attempt has ended and that the
run has published nothing else up to it (`Settled`); a sealed review has its
aliases in the registry. `NoEvidenceBehindSeal` alone is not inductive. That a run
does not publish from attempts begun after the push follows from the commit it is
pinned to, which `main` has left behind by then: none but the attempt of the time
of the push can be past its pin (`SealTrue`), since every attempt keeps the commit
and passes its pin only at the tip of `main` (`RunsKept`).

- `NothingPublishedBehindSeals` is a part of it; that nothing was published before
  the sealed index is the one artifact the append workflow asks for
  (`OnlyEvidence`), and stays so while the append goes on (`SettledStays`).
  `ReviewsTyped` follows as well.
- `SealedReviewsSayWhatWasSeen` and `PropertiesSealedOnce` relate what was sealed to
  what the models meant. They hold for every vocabulary and every set of readings
  under one hypothesis, `ReadAsMeant(Readings)`: two readings have one canonical
  form in a field exactly when they mean the same there, none exactly when they are
  silent, and a canonical form is its own. That is what a canonical form is for,
  and not a fact about every text (section 7 has one that breaks it), so it
  is a hypothesis and not an assumption; TLC finds it true of the six readings of
  `review_property`, and `written_identifiers` examines it spelling by spelling.
  What is proved is that nothing else is needed: reconciliation, the second reading
  when aliases are built, retries, several requests and the registry's comparison
  of alias sets lose nothing (`AliasMeant`, `SameAlias`).
- `ReviewedUnderCustody`: the history that review seals are derived into keeps every
  promise, which needs that a derived seal is a well-typed request
  (`DerivedIsRequest`): what it quotes comes through result, index, artifact and
  evidence from a case of a verified request.

### Only model-checked

Liveness and fairness (`EveryRequestEnds`, `EveryEvaluationEnds`,
`EveryReviewEnds`) and `ENABLED`, which the prover does not treat. `ReadsAsMeant` and
`ReadsTheSameAgain` of `WrittenIdentifier`: that the canonical form is what is
meant, and final, is a matter of what it makes of each text, which is data to be
enumerated, not an argument for every vocabulary. No module needs a recursive
operator.

## 7. Disagreements met

- `registry_quarantine`: the validator calls each assignment it accepts "a
  unique untouched split assignment" and requires the legacy quarantine to be
  sealed first. It compares owners, and a legacy record that names a case owns
  its values as that case: that very case can then be assigned with a source
  the quarantine lists.
- `written_labels`: a test says that canonicalization "handles common labels
  without collapsing segmented identifiers". A label pattern also takes the word
  NO, and takes it from the front of a longer word: "Lot North" becomes `RTH`,
  "North" stays `NORTH`. The label itself is taken from the front of a longer word
  as well: "Lotus" becomes `US`, "Lot Lotus" `LOTUS`. Of two reviewers one of whom
  writes the label, the reconciliation finds a conflict where there is none; of two
  reviews of lot North, the registry does not recognise the property. (The second
  pass, when aliases are built, makes `US` of `LOTUS` too, so final is only what
  does not begin with a label: the vocabulary of `written_identifiers`.)

Four things that no document denies are worth knowing. A receipt is attested and
uploaded before the push, so after a refused push or a lost runner an attested
receipt describes an append that never became public; what a caller may rely on
is `VerifiedMeansCommitted`. The evidence of a review is looked at before the push
and not again: an attempt of the reviewer begun in between passes its pin, since
`main` has not moved, and may publish a second index with other answers while the
first is sealed; the registry keeps what was sealed, and `NoEvidenceBehindSeal` is
what holds of later attempts. The registry takes an execution seal of a consumed
fail-safe campaign with any positive count, so a custodian may seal it by hand
with trials missing; that blocks the evaluator's own seal and opens no truth
(`UnveiledTrialsComplete`). And two reviews of one property share no alias when
one describes it by its parcel alone and the other by its lot alone:
`SharedGroupsRefused` is about properties that share all fields of one kind of
alias. Letters that are Roman numerals to the code (lot `CC` is lot 200) are
ambiguous to any reader and left out of the grammar.

## 8. Not modelled

- The hosted model smoke: one call through the broker modelled above, then a
  comparison of files; sequential, without state of its own.
- The custodian command line: each script reads a file, calls a function modelled
  above and writes a file.
- Cryptography, formats and canonical JSON.
- Sizes. The padding class of a rejection receipt is computed from the compact
  registry while the padded payload is the pretty-printed receipt; whether it
  fits depends on the depth and number of all its fields, which the models
  abstract away. A receipt that does not fit, or whose case id is malformed, ends
  a run without a receipt, which `Interrupt` covers. The same holds of file sets
  that exceed the engine's limit on the length of a string.
- The start-up of the broker inside `ModelBroker`; `OfficialEvaluator` has it as
  `StartBroker`, `BrokerReports` and `AwaitBroker`.
- The private product, and GitHub itself except for the behaviours the workflows
  rely on: queueing, losing runners, refusing a push that is not a fast-forward,
  keeping artifacts by run.
