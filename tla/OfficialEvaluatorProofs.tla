----------------------- MODULE OfficialEvaluatorProofs -----------------------
(***************************************************************************)
(* Theorems about the official evaluator, for every set of runs, inputs,   *)
(* callers and limits.  The inductive invariant Custody says what a job    *)
(* has on its runner and on record after each step, to which attempt every *)
(* deed in the history belongs, and what every unveiling rests on.         *)
(***************************************************************************)
EXTENDS OfficialEvaluator, CorpusHistoryProofs

-----------------------------------------------------------------------------
(* The steps at which a job has got past the unveiling, the check of the    *)
(* seal, the seal, the attestation and so on.                              *)
Unveiled  == {"compare", "grade", "return"}
Checked   == {"unveil"} \cup Unveiled
Sealed    == {"sealed"} \cup Checked
Attested  == {"seal"} \cup Sealed
Rebuilt   == {"attest"} \cup Attested
Indexed   == {"rebuild"} \cup Rebuilt
Tried     == {"try"} \cup Indexed
Rehearsed == {"consume"} \cup Tried
Verified  == {"start-broker", "await-broker", "rehearse"} \cup Rehearsed

Bundles == {"source.bundle", "truth.bundle"}

(* The consume event whose receipt the job holds. *)
ConsumedBy(r) ==
  LET k == job[r].consume IN
  /\ k \in DOMAIN events /\ events[k].eventType = "consume"
  /\ events[k].corpusId = Manifest(r).corpus
  /\ events[k].payload = ConsumeRequest(r).payload

SealedBy(r) ==
  \E x \in EventsOf(events, "execution-seal") :
    /\ events[x].corpusId = Manifest(r).corpus
    /\ events[x].payload.campaign = job[r].input.campaign
    /\ events[x].payload.consumeEvent = job[r].consume
    /\ events[x].payload.executionCount = job[r].executions
    /\ events[x].payload.productCodeTip = job[r].input.productTip

(* A runner is empty unless its job runs. *)
RestTrue(r) ==
  job[r].status # "running" =>
    /\ disk[r] = {} /\ broker[r] = "off"
    /\ job[r].status # "idle" => job[r].step = "pin"

(* What lies on the runner of a job at a step, and its broker. *)
DiskFits(r, step, files, state) ==
  /\ step \notin Verified \/ step = "start-broker" => state = "off"
  /\ step \in {"pin", "download"} => files = {}
  /\ step = "materialize" => files = Bundles
  /\ step = "verify" => files = Bundles \cup {"bundle-key"} \cup job[r].input.source.files
  /\ step \in Verified \ Unveiled => TruthFiles \cap files = {}
  /\ step \in Rehearsed => "model-receipts" \in files
  /\ step \in Indexed => "index" \in files
  /\ step \in Attested => "sigstore" \in files
  /\ step \in Verified /\ "execution-seal" \in files => step \in Sealed
  /\ step \in Checked => "execution-seal" \in files
  /\ step = "return" => "grade" \in files

(* What stands behind a step of a job. *)
RecordFits(r, step, files) ==
  /\ step # "pin" => job[r].input.campaign \in Official
  /\ step \in Verified => Manifest(r).caseEvents # {}
  /\ step \in Tried => ConsumedBy(r) /\ Deed(r, "tried") \in history
  /\ step \in Rebuilt => job[r].executions = Trials(Manifest(r))
  /\ step \in Attested => Attestation(r) \in attested
  /\ step \in Sealed /\ "execution-seal" \in files => SealedBy(r)
  /\ step \in Unveiled => Deed(r, "unveiled") \in history
  /\ step \in {"grade", "return"} => job[r].input.truth.files = TruthFiles

DiskTrue(r) ==
  job[r].status = "running" => DiskFits(r, job[r].step, disk[r], broker[r])

RecordTrue(r) ==
  job[r].status = "running" => RecordFits(r, job[r].step, disk[r])

JobTrue(r) == RestTrue(r) /\ DiskTrue(r) /\ RecordTrue(r)

(* The seal behind an unveiling: complete, over an index of that attempt. *)
SealedComplete(h) ==
  \E x \in EventsOfCampaign(events, "execution-seal", h.of.corpus, h.of.campaign),
     a \in attested :
    LET p == events[x].payload IN
    /\ p.consumeEvent \in DOMAIN events
    /\ p.executionCount = 3 * Cardinality(events[p.consumeEvent].payload.caseEvents)
    /\ a.run = h.run /\ a.attempt = h.attempt /\ a.of = h.of
    /\ a.executions = p.executionCount

(* A deed is of a consumed campaign and of this attempt or an earlier one,  *)
(* which unveils once.                                                     *)
DeedTrue(h) ==
  LET j == job[h.run] IN
  /\ h.run \in Runs /\ j.status # "idle"
  /\ h.attempt \in Nat /\ h.attempt <= j.attempt
  /\ h.attempt = j.attempt => j.status # "pending"
  /\ h.attempt = j.attempt /\ j.status = "running" /\ h.deed = "unveiled" =>
       j.step \in Unveiled
  /\ h.of \in Units
  /\ EventsOfCampaign(events, "consume", h.of.corpus, h.of.campaign) # {}
  /\ h.deed = "unveiled" => SealedComplete(h)

(* Evidence is of an attempt that unveiled the truth and has ended. *)
BundleTrue(b) ==
  LET j == job[b.run] IN
  /\ b.run \in Runs /\ j.status # "idle"
  /\ b.attempt \in Nat /\ b.attempt <= j.attempt
  /\ b.attempt = j.attempt => j.status \in Ended
  /\ [deed |-> "unveiled", run |-> b.run, attempt |-> b.attempt, of |-> b.of] \in history

(* The concurrency group of a request. *)
OneRunning ==
  \A r, s \in Runs :
    /\ job[r].status = "running" /\ job[s].status = "running"
    /\ job[r].input.id = job[s].input.id
    => r = s

Custody ==
  /\ TypeOK /\ OneRunning
  /\ \A r \in Runs : JobTrue(r)
  /\ \A h \in history : DeedTrue(h)
  /\ \A b \in returned : BundleTrue(b)
  /\ CampaignTriedOnce
  /\ EvidenceWithoutPayloads

-----------------------------------------------------------------------------
(* What a step leaves of the records: they are only extended. *)
Grows ==
  /\ events' \in Seq(Event) /\ DOMAIN events \subseteq DOMAIN events'
  /\ \A n \in DOMAIN events : events'[n] = events[n]
  /\ attested \subseteq attested' /\ history \subseteq history'
  /\ returned \subseteq returned'

(* A dispatched run keeps its input and does not go back in an attempt.     *)
FollowsOn(r) ==
  job[r].status # "idle" =>
    /\ job'[r].status # "idle"
    /\ job'[r].attempt \in Nat /\ job[r].attempt \in Nat
    /\ job[r].attempt <= job'[r].attempt
    /\ job'[r].attempt = job[r].attempt =>
         /\ job[r].status # "pending" => job'[r].status # "pending"
         /\ job[r].status \in Ended => job'[r].status \in Ended
         /\ job'[r].status = "running" =>
              \/ job[r].status = "pending"
              \/ job[r].status = "running"
                 /\ (job[r].step \in Unveiled => job'[r].step \in Unveiled)

(* Events of a campaign stay when the registry grows. *)
LEMMA CampaignStays ==
  ASSUME Grows, NEW type, NEW corpus, NEW campaign
  PROVE  /\ EventsOfCampaign(events, type, corpus, campaign)
              \subseteq EventsOfCampaign(events', type, corpus, campaign)
         /\ EventsOf(events, type) \subseteq EventsOf(events', type)
BY DEF Grows, EventsOfCampaign, EventsOf

(* What an unveiling rests on stays. *)
LEMMA SealStays ==
  ASSUME Grows, NEW h, SealedComplete(h)
  PROVE  SealedComplete(h)'
<1>1. PICK x \in EventsOfCampaign(events, "execution-seal", h.of.corpus, h.of.campaign),
           a \in attested :
        /\ events[x].payload.consumeEvent \in DOMAIN events
        /\ events[x].payload.executionCount
             = 3 * Cardinality(events[events[x].payload.consumeEvent].payload.caseEvents)
        /\ a.run = h.run /\ a.attempt = h.attempt /\ a.of = h.of
        /\ a.executions = events[x].payload.executionCount
  BY DEF SealedComplete
<1>2. /\ x \in EventsOfCampaign(events', "execution-seal", h.of.corpus, h.of.campaign)
      /\ a \in attested' /\ x \in DOMAIN events
  BY <1>1, CampaignStays DEF Grows, EventsOfCampaign, EventsOf
<1>3. /\ events'[x] = events[x]
      /\ events[x].payload.consumeEvent \in DOMAIN events'
      /\ events'[events[x].payload.consumeEvent] = events[events[x].payload.consumeEvent]
  BY <1>1, <1>2 DEF Grows
<1>4. QED
  BY <1>1, <1>2, <1>3 DEF SealedComplete

(* What was done stays true of its attempt. *)
LEMMA DeedStays ==
  ASSUME Grows, NEW h, DeedTrue(h), FollowsOn(h.run)
  PROVE  DeedTrue(h)'
<1>1. EventsOfCampaign(events', "consume", h.of.corpus, h.of.campaign) # {}
  BY CampaignStays DEF DeedTrue
<1>2. h.run \in Runs /\ h.of \in Units /\ h.attempt \in Nat
  BY DEF DeedTrue
<1>3. /\ job'[h.run].status # "idle" /\ h.attempt <= job'[h.run].attempt
      /\ h.attempt = job'[h.run].attempt =>
           h.attempt = job[h.run].attempt /\ job'[h.run].attempt = job[h.run].attempt
  BY DEF DeedTrue, FollowsOn
<1>4. h.attempt = job'[h.run].attempt => job'[h.run].status # "pending"
  BY <1>3 DEF DeedTrue, FollowsOn
<1>5. h.attempt = job'[h.run].attempt /\ job'[h.run].status = "running"
        /\ h.deed = "unveiled" => job'[h.run].step \in Unveiled
  BY <1>3 DEF DeedTrue, FollowsOn
<1>6. h.deed = "unveiled" => SealedComplete(h)'
  BY SealStays DEF DeedTrue
<1>7. QED
  BY <1>1, <1>2, <1>3, <1>4, <1>5, <1>6 DEF DeedTrue

(* A returned bundle stays what it was. *)
LEMMA BundleStays ==
  ASSUME Grows, NEW b, BundleTrue(b), FollowsOn(b.run)
  PROVE  BundleTrue(b)'
<1>1. /\ job'[b.run].status # "idle" /\ b.attempt <= job'[b.run].attempt
      /\ b.attempt = job'[b.run].attempt =>
           b.attempt = job[b.run].attempt /\ job'[b.run].attempt = job[b.run].attempt
  BY DEF BundleTrue, FollowsOn
<1>2. b.attempt = job'[b.run].attempt => job'[b.run].status \in Ended
  BY <1>1 DEF BundleTrue, FollowsOn
<1>3. QED
  BY <1>1, <1>2 DEF BundleTrue, Grows

(* A set without two elements counts at most one. *)
LEMMA AtMostOne ==
  ASSUME NEW S, \A x, y \in S : x = y
  PROVE  Cardinality(S) <= 1
<1>1. CASE S = {}
  BY <1>1, FS_EmptySet
<1>2. CASE S # {}
  <2>1. PICK x \in S : TRUE
    BY <1>2
  <2>2. S = {x}
    BY <2>1
  <2>3. QED
    BY <2>2, FS_Singleton
<1>3. QED
  BY <1>1, <1>2

(* The types without the count of running jobs, which OneRunning implies. *)
Releases ==
  {None} \cup
    [target : Nat, source : {i.source : i \in Inputs}, truth : {i.truth : i \in Inputs}]

Typed ==
  /\ events \in Seq(Event) /\ main \in Nat
  /\ release \in [Ids -> Releases]
  /\ job \in [Runs -> [status : {"idle"}] \cup Jobs]
  /\ broker \in [Runs -> {"off", "starting", "up", "down"}]
  /\ disk \in [Runs -> SUBSET Files]

(* Types and one running job of a request are all that TypeOK says. *)
LEMMA TypeFollows ==
  ASSUME Typed', OneRunning'
  PROVE  TypeOK'
<1>1. ASSUME NEW q \in Ids
      PROVE  Cardinality({r \in Runs : job'[r].status = "running" /\ job'[r].input.id = q}) <= 1
  <2>1. \A x, y \in {r \in Runs : job'[r].status = "running" /\ job'[r].input.id = q} : x = y
    BY DEF OneRunning
  <2>2. QED
    BY <2>1, AtMostOne
<1>2. QED
  BY <1>1 DEF Typed, TypeOK, Releases

(* TypeOK says what the lemmas read of types. *)
LEMMA TypesHold == TypeOK => Typed
BY DEF Typed, TypeOK, Releases

(* What a step has to establish to keep Custody. *)
LEMMA CustodyStays ==
  ASSUME Custody, Grows, Typed', OneRunning',
         \A r \in Runs : JobTrue(r)' /\ FollowsOn(r),
         \A h \in history' \ history : DeedTrue(h)',
         \A b \in returned' \ returned : BundleTrue(b)',
         CampaignTriedOnce', EvidenceWithoutPayloads'
  PROVE  Custody'
<1>1. TypeOK'
  BY TypeFollows
<1>2. ASSUME NEW h \in history' PROVE DeedTrue(h)'
  <2>1. CASE h \in history
    <3>1. DeedTrue(h) /\ h.run \in Runs
      BY <2>1 DEF Custody, DeedTrue
    <3>2. QED
      BY <3>1, DeedStays
  <2>2. QED
    BY <2>1
<1>3. ASSUME NEW b \in returned' PROVE BundleTrue(b)'
  <2>1. CASE b \in returned
    <3>1. BundleTrue(b) /\ b.run \in Runs
      BY <2>1 DEF Custody, BundleTrue
    <3>2. QED
      BY <3>1, BundleStays
  <2>2. QED
    BY <2>1
<1>4. QED
  BY <1>1, <1>2, <1>3 DEF Custody

-----------------------------------------------------------------------------
(* The start: no job, nothing of the official campaigns on record. *)
LEMMA CustodyInit == Init => Custody
<1> SUFFICES ASSUME Init PROVE Custody
  OBVIOUS
<1>1. \A r \in Runs : job[r].status = "idle"
  BY DEF Init
<1>2. OneRunning
  BY <1>1 DEF OneRunning
<1>3. Typed
  BY EvaluatorAssumption DEF Init, Typed, Releases
<1>4. TypeOK
  <2>1. ASSUME NEW q \in Ids
        PROVE  Cardinality({r \in Runs : job[r].status = "running" /\ job[r].input.id = q}) <= 1
    <3>1. {r \in Runs : job[r].status = "running" /\ job[r].input.id = q} = {}
      BY <1>1
    <3>2. QED
      BY <3>1, FS_EmptySet
  <2>2. QED
    BY <1>3, <2>1 DEF Typed, TypeOK, Releases
<1>5. \A r \in Runs : JobTrue(r)
  BY <1>1 DEF Init, JobTrue, RestTrue, DiskTrue, RecordTrue
<1>6. QED
  BY <1>2, <1>4, <1>5
  DEF Init, Custody, CampaignTriedOnce, EvidenceWithoutPayloads

-----------------------------------------------------------------------------
(* A run that was dispatched holds a job. *)
LEMMA IsJob ==
  ASSUME Typed, NEW r \in Runs, job[r].status # "idle"
  PROVE  /\ job[r] \in Jobs /\ job[r].attempt \in Nat /\ job[r].input \in Inputs
         /\ InputOk(job[r].input) /\ DOMAIN job = Runs
<1>1. job[r] \in Jobs /\ DOMAIN job = Runs
  BY DEF Typed
<1>2. job[r].input \in Inputs /\ job[r].attempt \in Nat
  BY <1>1, EvaluatorAssumption DEF Jobs
<1>3. QED
  BY <1>1, <1>2, EvaluatorAssumption

(* What a run has on record, while it keeps its input and its receipt. *)
LEMMA FactsStay ==
  ASSUME Grows, NEW r \in Runs,
         job'[r].input = job[r].input, job'[r].attempt = job[r].attempt,
         job'[r].sha = job[r].sha, job'[r].consume = job[r].consume,
         job'[r].executions = job[r].executions
  PROVE  /\ ConsumedBy(r) => ConsumedBy(r)'
         /\ SealedBy(r) => SealedBy(r)'
         /\ Deed(r, "tried")' = Deed(r, "tried")
         /\ Deed(r, "unveiled")' = Deed(r, "unveiled")
         /\ Attestation(r)' = Attestation(r)
         /\ Manifest(r)' = Manifest(r)
         /\ Trials(Manifest(r))' = Trials(Manifest(r))
<1>1. /\ Deed(r, "tried")' = Deed(r, "tried") /\ Deed(r, "unveiled")' = Deed(r, "unveiled")
      /\ Manifest(r)' = Manifest(r) /\ ConsumeRequest(r)' = ConsumeRequest(r)
      /\ Attestation(r)' = Attestation(r) /\ Trials(Manifest(r))' = Trials(Manifest(r))
  BY DEF Deed, Campaign, Manifest, ConsumeRequest, Attestation, Trials
<1>2. ConsumedBy(r) => ConsumedBy(r)'
  BY <1>1 DEF ConsumedBy, Grows
<1>3. SealedBy(r) => SealedBy(r)'
  <2> SUFFICES ASSUME SealedBy(r) PROVE SealedBy(r)'
    OBVIOUS
  <2>1. PICK x \in EventsOf(events, "execution-seal") :
          /\ events[x].corpusId = Manifest(r).corpus
          /\ events[x].payload.campaign = job[r].input.campaign
          /\ events[x].payload.consumeEvent = job[r].consume
          /\ events[x].payload.executionCount = job[r].executions
          /\ events[x].payload.productCodeTip = job[r].input.productTip
    BY DEF SealedBy
  <2>2. x \in EventsOf(events', "execution-seal") /\ events'[x] = events[x]
    BY <2>1, CampaignStays DEF Grows, EventsOf
  <2>3. QED
    BY <1>1, <2>1, <2>2 DEF SealedBy
<1>4. QED
  BY <1>1, <1>2, <1>3

(* A job that does not move keeps what it holds, whatever others append. *)
LEMMA JobStays ==
  ASSUME Grows, NEW r \in Runs, JobTrue(r),
         job'[r] = job[r], disk'[r] = disk[r], broker'[r] = broker[r]
  PROVE  JobTrue(r)'
<1>1. RestTrue(r)' /\ DiskTrue(r)'
  BY DEF JobTrue, RestTrue, DiskTrue, DiskFits
<1>2. RecordTrue(r)'
  BY FactsStay DEF JobTrue, RecordTrue, RecordFits, Grows
<1>3. QED
  BY <1>1, <1>2 DEF JobTrue

(* A job that does not move contradicts no deed. *)
LEMMA JobFollowsOn ==
  ASSUME Typed, NEW r \in Runs, job'[r] = job[r]
  PROVE  FollowsOn(r)
BY IsJob DEF FollowsOn

(* Evidence stays sealed. *)
LEMMA EvidenceStays ==
  ASSUME Grows, EvidenceWithoutPayloads, returned' = returned
  PROVE  EvidenceWithoutPayloads'
<1> SUFFICES ASSUME NEW b \in returned
             PROVE  b.of \in UnitsOf("execution-seal")'
  BY DEF EvidenceWithoutPayloads
<1>1. b.of \in Units
      /\ EventsOfCampaign(events, "execution-seal", b.of.corpus, b.of.campaign) # {}
  BY DEF EvidenceWithoutPayloads, UnitsOf
<1>2. EventsOfCampaign(events', "execution-seal", b.of.corpus, b.of.campaign) # {}
  BY <1>1, CampaignStays
<1>3. QED
  BY <1>1, <1>2 DEF UnitsOf

(* A step of the running job r alone: it goes on or ends. *)
LEMMA JobMoves ==
  ASSUME Custody, Grows, NEW r \in Runs, job[r].status = "running",
         NEW rec \in Jobs, job' = [job EXCEPT ![r] = rec],
         rec.status \in Ended \cup {"running"},
         rec.input = job[r].input, rec.attempt = job[r].attempt,
         rec.status = "running" => (job[r].step \in Unveiled => rec.step \in Unveiled),
         NEW files \in SUBSET Files, disk' = [disk EXCEPT ![r] = files],
         NEW state \in {"off", "starting", "up", "down"},
         broker' = [broker EXCEPT ![r] = state],
         main' \in Nat, release' = release,
         JobTrue(r)',
         \A h \in history' \ history : DeedTrue(h)',
         \A b \in returned' \ returned : BundleTrue(b)',
         CampaignTriedOnce', EvidenceWithoutPayloads'
  PROVE  Custody'
<1>1. Typed /\ OneRunning
  BY TypesHold DEF Custody
<1>2. Typed'
  <2>1. job' \in [Runs -> [status : {"idle"}] \cup Jobs]
    BY <1>1 DEF Typed
  <2>2. disk' \in [Runs -> SUBSET Files]
    BY <1>1 DEF Typed
  <2>3. broker' \in [Runs -> {"off", "starting", "up", "down"}]
    BY <1>1 DEF Typed
  <2>4. QED
    BY <1>1, <2>1, <2>2, <2>3 DEF Typed, Grows
<1>3. /\ job'[r] = rec
      /\ \A s \in Runs : s # r =>
           job'[s] = job[s] /\ disk'[s] = disk[s] /\ broker'[s] = broker[s]
  BY <1>1 DEF Typed
<1>4. OneRunning'
  <2> SUFFICES ASSUME NEW s \in Runs, NEW t \in Runs,
                      job'[s].status = "running", job'[t].status = "running",
                      job'[s].input.id = job'[t].input.id
               PROVE  s = t
    BY DEF OneRunning
  <2>1. /\ job[s].status = "running" /\ job[s].input.id = job'[s].input.id
        /\ job[t].status = "running" /\ job[t].input.id = job'[t].input.id
    BY <1>3
  <2>2. QED
    BY <1>1, <2>1 DEF OneRunning
<1>5. ASSUME NEW s \in Runs
      PROVE  JobTrue(s)' /\ FollowsOn(s)
  <2>1. CASE s = r
    <3>1. job[r].attempt \in Nat
      BY <1>1, IsJob
    <3>2. FollowsOn(r)
      BY <1>3, <3>1 DEF FollowsOn, Ended
    <3>3. QED
      BY <2>1, <3>2
  <2>2. CASE s # r
    <3>1. JobTrue(s) /\ job'[s] = job[s] /\ disk'[s] = disk[s] /\ broker'[s] = broker[s]
      BY <1>3, <2>2 DEF Custody
    <3>2. QED
      BY <1>1, <3>1, JobStays, JobFollowsOn
  <2>3. QED
    BY <2>1, <2>2
<1>6. QED
  BY <1>2, <1>4, <1>5, CustodyStays

(* Most steps leave the registry and the records alone. *)
LEMMA QuietMove ==
  ASSUME Custody, NEW r \in Runs, job[r].status = "running",
         NEW rec \in Jobs, job' = [job EXCEPT ![r] = rec],
         rec.status \in Ended \cup {"running"},
         rec.input = job[r].input, rec.attempt = job[r].attempt,
         rec.status = "running" => (job[r].step \in Unveiled => rec.step \in Unveiled),
         NEW files \in SUBSET Files, disk' = [disk EXCEPT ![r] = files],
         NEW state \in {"off", "starting", "up", "down"},
         broker' = [broker EXCEPT ![r] = state],
         UNCHANGED <<registry, release, history, returned>>, attested \subseteq attested',
         JobTrue(r)'
  PROVE  Custody'
<1>1. UNCHANGED <<events, main, release, history, returned>>
  BY DEF registry
<1>2. Grows /\ main' \in Nat
  BY <1>1 DEF Grows, Custody, TypeOK
<1>3. EvidenceWithoutPayloads'
  BY <1>1, <1>2, EvidenceStays DEF Custody
<1>4. CampaignTriedOnce'
  BY <1>1 DEF Custody, CampaignTriedOnce
<1>5. QED
  BY <1>1, <1>2, <1>3, <1>4, JobMoves

(* A job that ends leaves an empty runner, and nothing more is asked of it. *)
LEMMA Emptied ==
  ASSUME Custody, NEW r \in Runs, job[r].status = "running",
         NEW status \in Ended, End(r, status)
  PROVE  /\ \E rec \in Jobs :
              /\ job' = [job EXCEPT ![r] = rec]
              /\ rec.status = status /\ rec.input = job[r].input
              /\ rec.attempt = job[r].attempt
         /\ job'[r].status = status /\ job'[r].attempt = job[r].attempt
         /\ disk' = [disk EXCEPT ![r] = {}] /\ broker' = [broker EXCEPT ![r] = "off"]
         /\ JobTrue(r)'
<1> DEFINE rec == [job[r] EXCEPT !.status = status, !.step = "pin", !.polls = 0,
                                 !.consume = 0, !.executions = 0]
<1>1. Typed
  BY TypesHold DEF Custody
<1>2. job[r] \in Jobs
  BY <1>1, IsJob
<1>3. rec \in Jobs
  <2>1. 0 \in 0 .. MaxPolls
    BY EvaluatorAssumption
  <2>2. QED
    BY <1>2, <2>1 DEF Jobs
<1>4. job' = [job EXCEPT ![r] = rec]
  BY <1>1 DEF End, Typed
<1>5. /\ rec.status = status /\ rec.input = job[r].input /\ rec.attempt = job[r].attempt
      /\ rec.step = "pin"
  BY <1>2 DEF Jobs
<1>6. job'[r] = rec
  BY <1>1, <1>4 DEF Typed
<1> HIDE DEF rec
<1>7. disk'[r] = {} /\ broker'[r] = "off"
  BY <1>1 DEF End, Typed
<1>8. JobTrue(r)'
  BY <1>5, <1>6, <1>7 DEF JobTrue, RestTrue, DiskTrue, RecordTrue, Ended
<1>9. QED
  BY <1>3, <1>4, <1>5, <1>6, <1>8 DEF End

(* A job that fails loses its runner and leaves the record. *)
LEMMA FailKeeps ==
  ASSUME Custody, NEW r \in Runs, job[r].status = "running", Fail(r)
  PROVE  Custody'
<1>1. End(r, "failure") /\ UNCHANGED <<registry, release, record>>
  BY DEF Fail
<1>2. PICK rec \in Jobs :
        /\ job' = [job EXCEPT ![r] = rec]
        /\ rec.status = "failure" /\ rec.input = job[r].input
        /\ rec.attempt = job[r].attempt
  BY <1>1, Emptied DEF Ended
<1>3. /\ disk' = [disk EXCEPT ![r] = {}] /\ broker' = [broker EXCEPT ![r] = "off"]
      /\ JobTrue(r)'
  BY <1>1, Emptied DEF Ended
<1>4. /\ UNCHANGED <<registry, release, history, returned>> /\ attested \subseteq attested'
      /\ "off" \in {"off", "starting", "up", "down"} /\ {} \in SUBSET Files
      /\ rec.status \in Ended \cup {"running"} /\ rec.status # "running"
  BY <1>1, <1>2 DEF Ended, record
<1>5. QED
  BY <1>2, <1>3, <1>4, QuietMove

(* Going on to another step changes the step alone. *)
LEMMA GoesOn ==
  ASSUME Typed, NEW r \in Runs, job[r].status = "running", NEW step,
         step \in {"pin", "download", "materialize", "verify", "start-broker",
                   "await-broker", "rehearse", "consume", "try", "rebuild", "attest",
                   "seal", "sealed", "unveil", "compare", "grade", "return"},
         GoTo(r, step)
  PROVE  /\ [job[r] EXCEPT !.step = step] \in Jobs
         /\ job' = [job EXCEPT ![r] = [job[r] EXCEPT !.step = step]]
         /\ job'[r] = [job[r] EXCEPT !.step = step]
         /\ job'[r].status = "running" /\ job'[r].step = step
         /\ job'[r].input = job[r].input /\ job'[r].attempt = job[r].attempt
         /\ job'[r].sha = job[r].sha /\ job'[r].consume = job[r].consume
         /\ job'[r].executions = job[r].executions
<1>1. job[r] \in Jobs
  BY IsJob
<1>2. QED
  BY <1>1 DEF GoTo, Typed, Jobs

(* The invariant of a running job at a step that runner and record bear out. *)
LEMMA HoldsAt ==
  ASSUME Grows, NEW r \in Runs, job'[r].status = "running",
         job'[r].input = job[r].input, job'[r].attempt = job[r].attempt,
         job'[r].sha = job[r].sha, job'[r].consume = job[r].consume,
         job'[r].executions = job[r].executions,
         NEW step, job'[r].step = step, NEW files, disk'[r] = files,
         NEW state, broker'[r] = state,
         DiskFits(r, step, files, state), RecordFits(r, step, files)
  PROVE  JobTrue(r)'
<1>1. DiskTrue(r)'
  BY DEF DiskTrue, DiskFits
<1>2. /\ ConsumedBy(r) => ConsumedBy(r)'
      /\ SealedBy(r) => SealedBy(r)'
      /\ Deed(r, "tried")' = Deed(r, "tried")
      /\ Deed(r, "unveiled")' = Deed(r, "unveiled")
      /\ Attestation(r)' = Attestation(r)
      /\ Manifest(r)' = Manifest(r)
      /\ Trials(Manifest(r))' = Trials(Manifest(r))
  BY FactsStay
<1>3. RecordTrue(r)'
  BY <1>2 DEF RecordTrue, RecordFits, Grows
<1>4. QED
  BY <1>1, <1>3 DEF JobTrue, RestTrue

(* A running job goes on to a step that its runner and its record bear out. *)
LEMMA StepKeeps ==
  ASSUME Custody, NEW r \in Runs, job[r].status = "running", NEW step,
         step \in {"pin", "download", "materialize", "verify", "start-broker",
                   "await-broker", "rehearse", "consume", "try", "rebuild", "attest",
                   "seal", "sealed", "unveil", "compare", "grade", "return"},
         GoTo(r, step), job[r].step \in Unveiled => step \in Unveiled,
         NEW files \in SUBSET Files, disk' = [disk EXCEPT ![r] = files],
         NEW state \in {"off", "starting", "up", "down"},
         broker' = [broker EXCEPT ![r] = state],
         UNCHANGED <<registry, release, record>>,
         DiskFits(r, step, files, state), RecordFits(r, step, files)
  PROVE  Custody'
<1>1. Typed
  BY TypesHold DEF Custody
<1>2. UNCHANGED <<events, attested, history, returned>>
  BY DEF registry, record
<1>3. /\ [job[r] EXCEPT !.step = step] \in Jobs
      /\ job' = [job EXCEPT ![r] = [job[r] EXCEPT !.step = step]]
      /\ job'[r] = [job[r] EXCEPT !.step = step]
      /\ job'[r].status = "running" /\ job'[r].step = step
      /\ job'[r].input = job[r].input /\ job'[r].attempt = job[r].attempt
      /\ job'[r].sha = job[r].sha /\ job'[r].consume = job[r].consume
      /\ job'[r].executions = job[r].executions
  BY <1>1, GoesOn
<1>4. disk'[r] = files /\ broker'[r] = state
  BY <1>1 DEF Typed
<1>5. Grows
  BY <1>1, <1>2 DEF Grows, Typed
<1>6. JobTrue(r)'
  BY <1>3, <1>4, <1>5, HoldsAt
<1> DEFINE rec == [job[r] EXCEPT !.step = step]
<1>7. /\ rec \in Jobs /\ job' = [job EXCEPT ![r] = rec]
      /\ rec.status = "running" /\ rec.step = step
      /\ rec.input = job[r].input /\ rec.attempt = job[r].attempt
  BY <1>3
<1> HIDE DEF rec
<1>8. UNCHANGED <<registry, release, history, returned>> /\ attested \subseteq attested'
  BY <1>2 DEF record
<1>9. QED
  BY <1>6, <1>7, <1>8, QuietMove

(* What is known of a running job. *)
LEMMA Running ==
  ASSUME Custody, NEW r \in Runs, job[r].status = "running"
  PROVE  /\ Typed /\ disk[r] \in SUBSET Files
         /\ broker[r] \in {"off", "starting", "up", "down"}
         /\ job[r] \in Jobs /\ job[r].input \in Inputs /\ InputOk(job[r].input)
         /\ DiskFits(r, job[r].step, disk[r], broker[r])
         /\ RecordFits(r, job[r].step, disk[r])
         /\ broker = [broker EXCEPT ![r] = broker[r]]
         /\ disk = [disk EXCEPT ![r] = disk[r]]
<1>1. Typed
  BY TypesHold DEF Custody
<1>2. JobTrue(r)
  BY DEF Custody
<1>3. job[r] \in Jobs /\ job[r].input \in Inputs /\ InputOk(job[r].input)
  BY <1>1, IsJob
<1>4. QED
  BY <1>1, <1>2, <1>3 DEF Typed, JobTrue, DiskTrue, RecordTrue

(* Proceeding keeps the invariant when the step's conditions give its facts. *)
LEMMA ProceedKeeps ==
  ASSUME Custody, NEW r \in Runs, job[r].status = "running", NEW step,
         step \in {"pin", "download", "materialize", "verify", "start-broker",
                   "await-broker", "rehearse", "consume", "try", "rebuild", "attest",
                   "seal", "sealed", "unveil", "compare", "grade", "return"},
         NEW files \in SUBSET Files, Proceed(r, TRUE, step, files),
         job[r].step \in Unveiled => step \in Unveiled,
         DiskFits(r, step, files, broker[r]), RecordFits(r, step, files)
  PROVE  Custody'
<1>1. /\ broker[r] \in {"off", "starting", "up", "down"}
      /\ broker = [broker EXCEPT ![r] = broker[r]]
  BY Running
<1>2. GoTo(r, step) /\ disk' = [disk EXCEPT ![r] = files]
  BY DEF Proceed
<1>3. broker' = broker /\ UNCHANGED <<registry, release, record>>
  BY DEF Proceed
<1>4. PICK state \in {"off", "starting", "up", "down"} : state = broker[r]
  BY <1>1
<1>5. broker' = [broker EXCEPT ![r] = state]
  BY <1>1, <1>3, <1>4
<1>6. DiskFits(r, step, files, state)
  BY <1>4
<1>7. UNCHANGED <<registry, release, record>>
  BY <1>3
<1>8. QED
  BY <1>2, <1>5, <1>6, <1>7, StepKeeps

-----------------------------------------------------------------------------
(* One lemma per step of a job, in the order of the workflow. *)
LEMMA PinKeeps ==
  ASSUME Custody, NEW r \in Runs, Pin(r)
  PROVE  Custody'
<1>1. job[r].status = "running" /\ job[r].step = "pin"
  BY DEF Pin, At
<1>2. CASE job[r].sha = main /\ job[r].policy = job[r].sha
             /\ job[r].input.campaign = CampaignOf(job[r].input.mode)
  <2>1. Proceed(r, TRUE, "download", {})
    BY <1>2 DEF Pin
  <2>2. job[r].input.campaign \in Official
    BY <1>2 DEF CampaignOf, Official
  <2>3. DiskFits(r, "pin", disk[r], broker[r])
    BY <1>1, Running
  <2>4. DiskFits(r, "download", {}, broker[r])
    BY <2>3 DEF DiskFits, Verified, Rehearsed, Tried, Indexed, Rebuilt, Attested, Sealed,
                Checked, Unveiled
  <2>5. RecordFits(r, "download", {})
    BY <2>2 DEF RecordFits, Verified, Rehearsed, Tried, Indexed, Rebuilt, Attested, Sealed,
                Checked, Unveiled
  <2>6. job[r].step \notin Unveiled /\ {} \in SUBSET Files
    BY <1>1 DEF Unveiled
  <2>7. QED
    BY <1>1, <2>1, <2>4, <2>5, <2>6, ProceedKeeps
<1>3. CASE ~(job[r].sha = main /\ job[r].policy = job[r].sha
               /\ job[r].input.campaign = CampaignOf(job[r].input.mode))
  <2>1. Fail(r)
    BY <1>3 DEF Pin, Proceed
  <2>2. QED
    BY <1>1, <2>1, FailKeeps
<1>4. QED
  BY <1>2, <1>3

(* The two staged ciphertexts arrive on the runner. *)
LEMMA DownloadKeeps ==
  ASSUME Custody, NEW r \in Runs, Download(r)
  PROVE  Custody'
<1>1. job[r].status = "running" /\ job[r].step = "download"
  BY DEF Download, At
<1>2. CASE Proceed(r, TRUE, "materialize", Bundles)
  <2>1. DiskFits(r, "download", disk[r], broker[r]) /\ RecordFits(r, "download", disk[r])
    BY <1>1, Running
  <2>2. /\ DiskFits(r, "materialize", Bundles, broker[r])
        /\ RecordFits(r, "materialize", Bundles)
    BY <2>1 DEF DiskFits, RecordFits, Verified, Rehearsed, Tried, Indexed, Rebuilt, Attested,
                Sealed, Checked, Unveiled
  <2>3. Bundles \in SUBSET Files /\ job[r].step \notin Unveiled
    BY <1>1 DEF Bundles, Files, Unveiled
  <2>4. QED
    BY <1>1, <1>2, <2>2, <2>3, ProceedKeeps
<1>3. CASE Fail(r)
  BY <1>1, <1>3, FailKeeps
<1>4. QED
  BY <1>2, <1>3 DEF Download, Proceed, Bundles

(* The source bundle is opened; the truth bundle is not. *)
LEMMA MaterializeKeeps ==
  ASSUME Custody, NEW r \in Runs, Materialize(r)
  PROVE  Custody'
<1> DEFINE files == disk[r] \cup {"bundle-key"} \cup job[r].input.source.files
<1>1. job[r].status = "running" /\ job[r].step = "materialize"
  BY DEF Materialize, At
<1>2. CASE Proceed(r, TRUE, "verify", files)
  <2>1. /\ DiskFits(r, "materialize", disk[r], broker[r])
        /\ RecordFits(r, "materialize", disk[r])
        /\ disk[r] \in SUBSET Files /\ InputOk(job[r].input)
    BY <1>1, Running
  <2>2. DiskFits(r, "verify", files, broker[r])
    BY <2>1 DEF DiskFits, Verified, Rehearsed, Tried, Indexed, Rebuilt, Attested,
                Sealed, Checked, Unveiled
  <2>3. RecordFits(r, "verify", files)
    BY <2>1 DEF RecordFits, Verified, Rehearsed, Tried, Indexed, Rebuilt, Attested,
                Sealed, Checked, Unveiled
  <2>4. files \in SUBSET Files /\ job[r].step \notin Unveiled
    BY <1>1, <2>1 DEF InputOk, Files, Unveiled
  <2> HIDE DEF files
  <2>5. QED
    BY <1>1, <1>2, <2>2, <2>3, <2>4, ProceedKeeps
<1>3. CASE Fail(r)
  BY <1>1, <1>3, FailKeeps
<1>4. QED
  BY <1>2, <1>3 DEF Materialize, Proceed

(* The check of the source leaves no truth and demands a cohort. *)
LEMMA VerifySourceKeeps ==
  ASSUME Custody, NEW r \in Runs, VerifySource(r)
  PROVE  Custody'
<1> DEFINE files == disk[r] \ {"source.bundle"}
<1>1. job[r].status = "running" /\ job[r].step = "verify"
  BY DEF VerifySource, At
<1>2. CASE SourceOk(r) /\ Proceed(r, TRUE, "start-broker", files)
  <2>1. /\ DiskFits(r, "verify", disk[r], broker[r])
        /\ RecordFits(r, "verify", disk[r])
        /\ disk[r] \in SUBSET Files
    BY <1>1, Running
  <2>2. files \subseteq Bundles \cup {"bundle-key"} \cup SourceFiles(job[r].input.mode)
    BY <1>2, <2>1 DEF DiskFits, SourceOk
  <2>3. TruthFiles \cap files = {} /\ "execution-seal" \notin files
    BY <2>2 DEF TruthFiles, Bundles, SourceFiles
  <2>4. broker[r] = "off" /\ job[r].input.campaign \in Official
    BY <2>1 DEF DiskFits, RecordFits, Verified, Rehearsed, Tried, Indexed, Rebuilt, Attested,
                Sealed, Checked, Unveiled
  <2>5. Manifest(r).caseEvents # {}
    <3>1. Cardinality(Manifest(r).caseEvents) # 0
      BY <1>2, LimitsAssumption DEF SourceOk, Manifest
    <3>2. QED
      BY <3>1, FS_EmptySet
  <2>6. files \in SUBSET Files /\ job[r].step \notin Unveiled
    BY <1>1, <2>1 DEF Unveiled
  <2> HIDE DEF files
  <2>7. DiskFits(r, "start-broker", files, broker[r])
    BY <2>3, <2>4 DEF DiskFits, Verified, Rehearsed, Tried, Indexed, Rebuilt, Attested,
                Sealed, Checked, Unveiled
  <2>8. RecordFits(r, "start-broker", files)
    BY <2>4, <2>5 DEF RecordFits, Verified, Rehearsed, Tried, Indexed, Rebuilt, Attested,
                Sealed, Checked, Unveiled
  <2>9. Proceed(r, TRUE, "start-broker", files)
    BY <1>2 DEF files
  <2>10. QED
    BY <1>1, <2>6, <2>7, <2>8, <2>9, ProceedKeeps
<1>3. CASE Fail(r)
  BY <1>1, <1>3, FailKeeps
<1>4. QED
  BY <1>2, <1>3 DEF VerifySource, Proceed

(* The broker is started. *)
LEMMA StartBrokerKeeps ==
  ASSUME Custody, NEW r \in Runs, StartBroker(r)
  PROVE  Custody'
<1>1. job[r].status = "running" /\ job[r].step = "start-broker"
  BY DEF StartBroker, At
<1>2. /\ DiskFits(r, "start-broker", disk[r], broker[r])
      /\ RecordFits(r, "start-broker", disk[r])
      /\ disk[r] \in SUBSET Files /\ disk = [disk EXCEPT ![r] = disk[r]]
  BY <1>1, Running
<1>3. PICK files \in SUBSET Files : files = disk[r]
  BY <1>2
<1>4. DiskFits(r, "await-broker", files, "starting")
  BY <1>2, <1>3 DEF DiskFits, Verified, Rehearsed, Tried, Indexed, Rebuilt, Attested,
              Sealed, Checked, Unveiled
<1>5. RecordFits(r, "await-broker", files)
  BY <1>2, <1>3 DEF RecordFits, Verified, Rehearsed, Tried, Indexed, Rebuilt, Attested,
              Sealed, Checked, Unveiled
<1>6. /\ GoTo(r, "await-broker") /\ disk' = [disk EXCEPT ![r] = files]
      /\ broker' = [broker EXCEPT ![r] = "starting"]
      /\ UNCHANGED <<registry, release, record>>
  BY <1>2, <1>3 DEF StartBroker
<1>7. job[r].step \notin Unveiled
  BY <1>1 DEF Unveiled
<1>8. QED
  BY <1>1, <1>4, <1>5, <1>6, <1>7, StepKeeps

(* A broker reports only on the runner of a job that runs. *)
LEMMA BrokerReportsKeeps ==
  ASSUME Custody, NEW r \in Runs, BrokerReports(r)
  PROVE  Custody'
<1>1. JobTrue(r) /\ Typed
  BY TypesHold DEF Custody
<1>2. job[r].status = "running"
  BY <1>1 DEF BrokerReports, JobTrue, RestTrue
<1>3. /\ DiskFits(r, job[r].step, disk[r], broker[r])
      /\ RecordFits(r, job[r].step, disk[r])
      /\ disk[r] \in SUBSET Files /\ job[r] \in Jobs
      /\ disk = [disk EXCEPT ![r] = disk[r]]
  BY <1>2, Running
<1>4. /\ UNCHANGED <<registry, release, job, record>>
      /\ \/ broker' = [broker EXCEPT ![r] = "up"]
            /\ disk' = [disk EXCEPT ![r] = disk[r] \cup {"config"}]
         \/ broker' = [broker EXCEPT ![r] = "down"]
            /\ disk' = [disk EXCEPT ![r] = disk[r]]
  BY <1>3 DEF BrokerReports
<1>5. PICK files \in SUBSET Files, state \in {"up", "down"} :
        /\ broker' = [broker EXCEPT ![r] = state]
        /\ disk' = [disk EXCEPT ![r] = files]
        /\ files = disk[r] \cup {"config"} \/ files = disk[r]
  BY <1>3, <1>4 DEF Files
<1>6. broker[r] = "starting"
  BY DEF BrokerReports
<1>7. DiskFits(r, job[r].step, files, state)
  BY <1>3, <1>5, <1>6 DEF DiskFits, Verified, Rehearsed, Tried, Indexed, Rebuilt, Attested,
                          Sealed, Checked, Unveiled, TruthFiles
<1>8. RecordFits(r, job[r].step, files)
  BY <1>3, <1>5 DEF RecordFits, Verified, Rehearsed, Tried, Indexed, Rebuilt, Attested,
                    Sealed, Checked, Unveiled
<1>9. PICK rec \in Jobs : rec = job[r]
  BY <1>3
<1>10. job' = [job EXCEPT ![r] = rec] /\ job'[r] = job[r]
  BY <1>1, <1>4, <1>9 DEF Typed
<1>11. disk'[r] = files /\ broker'[r] = state
  BY <1>1, <1>5 DEF Typed
<1>12. /\ UNCHANGED <<registry, release, history, returned>>
       /\ attested \subseteq attested' /\ UNCHANGED <<events, attested, history, returned>>
  BY <1>4 DEF record, registry
<1>13. Grows
  BY <1>1, <1>12 DEF Grows, Typed
<1>14. JobTrue(r)'
  BY <1>2, <1>7, <1>8, <1>10, <1>11, <1>13, HoldsAt
<1>15. /\ rec.status = "running" /\ rec.input = job[r].input /\ rec.attempt = job[r].attempt
       /\ rec.step = job[r].step
  BY <1>2, <1>9
<1>16. state \in {"off", "starting", "up", "down"}
  BY <1>5
<1>17. QED
  BY <1>2, <1>5, <1>10, <1>12, <1>14, <1>15, <1>16, QuietMove

(* The job polls for the broker and goes on, waits or fails. *)
LEMMA AwaitBrokerKeeps ==
  ASSUME Custody, NEW r \in Runs, AwaitBroker(r)
  PROVE  Custody'
<1>1. job[r].status = "running" /\ job[r].step = "await-broker"
  BY DEF AwaitBroker, At
<1>2. /\ DiskFits(r, "await-broker", disk[r], broker[r])
      /\ RecordFits(r, "await-broker", disk[r]) /\ Typed
      /\ disk[r] \in SUBSET Files /\ job[r] \in Jobs
      /\ broker[r] \in {"off", "starting", "up", "down"}
      /\ broker = [broker EXCEPT ![r] = broker[r]]
      /\ disk = [disk EXCEPT ![r] = disk[r]]
  BY <1>1, Running
<1>3. CASE Proceed(r, TRUE, "rehearse", disk[r])
  <2>1. DiskFits(r, "rehearse", disk[r], broker[r])
    BY <1>2 DEF DiskFits, Verified, Rehearsed, Tried, Indexed, Rebuilt, Attested,
                Sealed, Checked, Unveiled
  <2>2. RecordFits(r, "rehearse", disk[r])
    BY <1>2 DEF RecordFits, Verified, Rehearsed, Tried, Indexed, Rebuilt, Attested,
                Sealed, Checked, Unveiled
  <2>3. job[r].step \notin Unveiled
    BY <1>1 DEF Unveiled
  <2>4. QED
    BY <1>1, <1>2, <1>3, <2>1, <2>2, <2>3, ProceedKeeps
<1>4. CASE /\ job[r].polls < MaxPolls
           /\ job' = [job EXCEPT ![r].polls = @ + 1]
           /\ UNCHANGED <<registry, release, runner, record>>
  <2> DEFINE rec == [job[r] EXCEPT !.polls = @ + 1]
  <2>1. rec \in Jobs
    <3>1. job[r].polls + 1 \in 0 .. MaxPolls
      BY <1>2, <1>4, EvaluatorAssumption DEF Jobs
    <3>2. QED
      BY <1>2, <3>1 DEF Jobs
  <2>2. /\ rec.status = job[r].status /\ rec.step = job[r].step
        /\ rec.input = job[r].input /\ rec.attempt = job[r].attempt
        /\ rec.sha = job[r].sha /\ rec.consume = job[r].consume
        /\ rec.executions = job[r].executions
    BY <1>2 DEF Jobs
  <2>3. job' = [job EXCEPT ![r] = rec] /\ job'[r] = rec
    BY <1>2, <1>4 DEF Typed
  <2> HIDE DEF rec
  <2>4. PICK new \in Jobs, files \in SUBSET Files, state \in {"off", "starting", "up", "down"} :
          new = rec /\ files = disk[r] /\ state = broker[r]
    BY <1>2, <2>1
  <2>5. /\ UNCHANGED <<events, attested, history, returned>>
        /\ disk' = disk /\ broker' = broker
        /\ UNCHANGED <<registry, release, history, returned>>
        /\ attested \subseteq attested'
    BY <1>4 DEF runner, registry, record
  <2>6. Grows
    BY <1>2, <2>5 DEF Grows, Typed
  <2>7. /\ disk' = [disk EXCEPT ![r] = files] /\ broker' = [broker EXCEPT ![r] = state]
        /\ disk'[r] = files /\ broker'[r] = state /\ job' = [job EXCEPT ![r] = new]
    BY <1>2, <2>3, <2>4, <2>5
  <2>8. DiskFits(r, "await-broker", files, state) /\ RecordFits(r, "await-broker", files)
    BY <1>2, <2>4
  <2>9. JobTrue(r)'
    BY <1>1, <2>2, <2>3, <2>6, <2>7, <2>8, HoldsAt
  <2>10. QED
    BY <1>1, <2>2, <2>4, <2>5, <2>7, <2>9, QuietMove
<1>5. CASE Fail(r)
  BY <1>1, <1>5, FailKeeps
<1>6. QED
  BY <1>3, <1>4, <1>5 DEF AwaitBroker

(* The rehearsal leaves nothing official behind. *)
LEMMA RehearseKeeps ==
  ASSUME Custody, NEW r \in Runs, Rehearse(r)
  PROVE  Custody'
<1> DEFINE files == disk[r] \cup {"smoke", "model-receipts"}
<1>1. job[r].status = "running" /\ job[r].step = "rehearse"
  BY DEF Rehearse, At
<1>2. CASE Proceed(r, TRUE, "consume", files)
  <2>1. /\ DiskFits(r, "rehearse", disk[r], broker[r])
        /\ RecordFits(r, "rehearse", disk[r])
        /\ disk[r] \in SUBSET Files
    BY <1>1, Running
  <2>2. DiskFits(r, "consume", files, broker[r])
    BY <2>1 DEF DiskFits, Verified, Rehearsed, Tried, Indexed, Rebuilt, Attested,
                Sealed, Checked, Unveiled, TruthFiles
  <2>3. RecordFits(r, "consume", files)
    BY <2>1 DEF RecordFits, Verified, Rehearsed, Tried, Indexed, Rebuilt, Attested,
                Sealed, Checked, Unveiled
  <2>4. files \in SUBSET Files /\ job[r].step \notin Unveiled
    BY <1>1, <2>1 DEF Files, RootFiles, Unveiled
  <2> HIDE DEF files
  <2>5. QED
    BY <1>1, <1>2, <2>2, <2>3, <2>4, ProceedKeeps
<1>3. CASE Fail(r)
  BY <1>1, <1>3, FailKeeps
<1>4. QED
  BY <1>2, <1>3 DEF Rehearse, Proceed

(* An append records the stamped request, once the validator accepts it. *)
LEMMA AppendRecords ==
  ASSUME Typed, NEW request \in Request, AppendOf(request)
  PROVE  \E e \in Event :
           /\ EventOk(events, e) /\ events' = Append(events, e) /\ main' = main + 1
           /\ e.eventType = request.eventType /\ e.corpusId = request.corpusId
           /\ e.eventType # "source-release" => e.payload = request.payload
<1>1. PICK now \in Time :
        /\ EventOk(events, Stamp(events, request, now))
        /\ events' = Append(events, Stamp(events, request, now))
        /\ main' = main + 1
  BY DEF AppendOf
<1>2. now \in Nat /\ events \in Seq(Event)
  BY EvaluatorAssumption DEF Typed
<1>3. Stamp(events, request, now) \in Event
  BY <1>1, <1>2, StampIsEvent
<1>4. /\ Stamp(events, request, now).eventType = request.eventType
      /\ Stamp(events, request, now).corpusId = request.corpusId
      /\ request.eventType # "source-release" =>
           Stamp(events, request, now).payload = request.payload
  BY DEF Stamp
<1>5. QED
  BY <1>1, <1>3, <1>4

(* What is on record after an append. *)
LEMMA AppendExtends ==
  ASSUME Typed, NEW e \in Event, events' = Append(events, e)
  PROVE  /\ events' \in Seq(Event) /\ DOMAIN events \subseteq DOMAIN events'
         /\ \A n \in DOMAIN events : events'[n] = events[n]
         /\ Len(events) + 1 \in DOMAIN events' /\ events'[Len(events) + 1] = e
         /\ Len(events) + 1 \in Nat
         /\ \A type : \A x \in EventsOf(events', type) \ EventsOf(events, type) :
              x = Len(events) + 1 /\ e.eventType = type
<1>1. events \in Seq(Event)
  BY DEF Typed
<1>2. Len(events) \in Nat /\ DOMAIN events = 1 .. Len(events)
  BY <1>1, LenProperties
<1>3. /\ events' \in Seq(Event) /\ DOMAIN events' = 1 .. (Len(events) + 1)
      /\ events'[Len(events) + 1] = e
      /\ \A n \in DOMAIN events : events'[n] = events[n]
  BY <1>1, BeforeIsStable
<1>4. QED
  BY <1>2, <1>3 DEF EventsOf

(* The requests of a job are well-formed event data. *)
LEMMA ConsumeIsRequest ==
  ASSUME NEW r, InputOk(job[r].input)
  PROVE  ConsumeRequest(r) \in Request /\ ConsumeRequest(r).eventType = "consume"
<1>1. ConsumeRequest(r).payload \in ConsumePayload
  BY DEF InputOk, ConsumeRequest, ConsumePayload
<1>2. ConsumeRequest(r) \in RequestsOfType("consume")
  BY <1>1 DEF InputOk, ConsumeRequest, RequestsOfType, RequestPayloadOf, PayloadOf
<1>3. QED
  BY <1>2 DEF Request, ConsumeRequest

(* The execution seal a job requests is a well-typed request. *)
LEMMA SealIsRequest ==
  ASSUME NEW r, InputOk(job[r].input), job[r] \in Jobs
  PROVE  SealRequest(r) \in Request /\ SealRequest(r).eventType = "execution-seal"
<1>1. SealRequest(r).payload \in ExecutionPayload
  BY DEF InputOk, SealRequest, ExecutionPayload, Jobs
<1>2. SealRequest(r) \in RequestsOfType("execution-seal")
  BY <1>1 DEF InputOk, SealRequest, RequestsOfType, RequestPayloadOf, PayloadOf
<1>3. QED
  BY <1>2 DEF Request, SealRequest

(* What the campaign of a job past the pin is. *)
LEMMA CampaignIsUnit ==
  ASSUME NEW r, InputOk(job[r].input), job[r].input.campaign \in Official
  PROVE  Campaign(r) \in Units
BY DEF InputOk, Campaign, Manifest, Units

(* The product consumes the cohort: nobody has tried the campaign before.   *)
LEMMA ConsumeKeeps ==
  ASSUME Custody, NEW r \in Runs, Consume(r)
  PROVE  Custody'
<1>1. job[r].status = "running" /\ job[r].step = "consume"
  BY DEF Consume, At
<1>2. /\ DiskFits(r, "consume", disk[r], broker[r])
      /\ RecordFits(r, "consume", disk[r]) /\ Typed
      /\ disk[r] \in SUBSET Files /\ job[r] \in Jobs /\ InputOk(job[r].input)
      /\ broker[r] \in {"off", "starting", "up", "down"}
      /\ broker = [broker EXCEPT ![r] = broker[r]]
      /\ disk = [disk EXCEPT ![r] = disk[r]]
  BY <1>1, Running
<1>3. CASE AppendOf(ConsumeRequest(r))
  <2>1. ConsumeRequest(r) \in Request /\ ConsumeRequest(r).eventType = "consume"
    BY <1>2, ConsumeIsRequest
  <2>2. PICK e \in Event :
          /\ EventOk(events, e) /\ events' = Append(events, e) /\ main' = main + 1
          /\ e.eventType = "consume" /\ e.corpusId = ConsumeRequest(r).corpusId
          /\ e.payload = ConsumeRequest(r).payload
    BY <1>2, <1>3, <2>1, AppendRecords
  <2>3. /\ events' \in Seq(Event) /\ DOMAIN events \subseteq DOMAIN events'
        /\ \A n \in DOMAIN events : events'[n] = events[n]
        /\ Len(events) + 1 \in DOMAIN events' /\ events'[Len(events) + 1] = e
        /\ Len(events) + 1 \in Nat
        /\ EventsOf(events', "execution-seal") \subseteq EventsOf(events, "execution-seal")
    BY <1>2, <2>2, AppendExtends
  <2>4. main' \in Nat
    BY <1>2, <2>2 DEF Typed
  <2>5. CASE End(r, "failure") /\ UNCHANGED <<release, record>>
    <3>1. PICK rec \in Jobs :
            /\ job' = [job EXCEPT ![r] = rec]
            /\ rec.status = "failure" /\ rec.input = job[r].input
            /\ rec.attempt = job[r].attempt
      BY <1>1, <2>5, Emptied DEF Ended
    <3>2. /\ disk' = [disk EXCEPT ![r] = {}] /\ broker' = [broker EXCEPT ![r] = "off"]
          /\ JobTrue(r)'
      BY <1>1, <2>5, Emptied DEF Ended
    <3>3. release' = release /\ UNCHANGED <<attested, history, returned>>
      BY <2>5 DEF record
    <3>4. Grows
      BY <2>3, <3>3 DEF Grows
    <3>5. CampaignTriedOnce' /\ EvidenceWithoutPayloads'
      BY <3>3, <3>4, EvidenceStays DEF Custody, CampaignTriedOnce
    <3>6. /\ rec.status \in Ended \cup {"running"} /\ rec.status # "running"
          /\ {} \in SUBSET Files /\ "off" \in {"off", "starting", "up", "down"}
      BY <3>1 DEF Ended
    <3>7. QED
      BY <1>1, <2>3, <2>4, <3>1, <3>2, <3>3, <3>4, <3>5, <3>6, JobMoves
  <2>6. CASE /\ job' = [job EXCEPT ![r].step = "try", ![r].consume = Len(events) + 1]
             /\ history' = history \cup {Deed(r, "tried")}
             /\ UNCHANGED <<release, runner, attested, returned>>
    <3> DEFINE rec == [job[r] EXCEPT !.step = "try", !.consume = Len(events) + 1]
    <3>1. rec \in Jobs
      BY <1>2, <2>3 DEF Jobs
    <3>2. /\ rec.status = "running" /\ rec.step = "try" /\ rec.consume = Len(events) + 1
          /\ rec.input = job[r].input /\ rec.attempt = job[r].attempt
      BY <1>1, <1>2 DEF Jobs
    <3>3. job' = [job EXCEPT ![r] = rec] /\ job'[r] = rec
      BY <1>2, <2>6 DEF Typed
    <3> HIDE DEF rec
    <3>4. /\ release' = release /\ disk' = disk /\ broker' = broker
          /\ attested' = attested /\ returned' = returned
      BY <2>6 DEF runner
    <3>5. Grows
      BY <2>3, <2>6, <3>4 DEF Grows
    <3>6. /\ Deed(r, "tried")' = Deed(r, "tried") /\ Manifest(r)' = Manifest(r)
          /\ ConsumeRequest(r)' = ConsumeRequest(r)
      BY <3>2, <3>3 DEF Deed, Campaign, Manifest, ConsumeRequest
    <3>7. ConsumedBy(r)'
      <4>1. e.corpusId = Manifest(r).corpus
        BY <2>2 DEF ConsumeRequest, Manifest
      <4>2. QED
        BY <2>2, <2>3, <3>2, <3>3, <3>6, <4>1 DEF ConsumedBy
    <3>8. JobTrue(r)'
      <4>1. RestTrue(r)'
        BY <3>2, <3>3 DEF RestTrue
      <4>2. DiskTrue(r)'
        BY <1>2, <3>2, <3>3, <3>4
        DEF DiskTrue, DiskFits, Verified, Rehearsed, Tried, Indexed, Rebuilt, Attested,
            Sealed, Checked, Unveiled
      <4>3. RecordTrue(r)'
        BY <1>2, <2>6, <3>2, <3>3, <3>6, <3>7
        DEF RecordTrue, RecordFits, Verified, Rehearsed, Tried, Indexed, Rebuilt, Attested,
            Sealed, Checked, Unveiled
      <4>4. QED
        BY <4>1, <4>2, <4>3 DEF JobTrue
    <3>9. /\ EventsOfCampaign(events, "consume", Campaign(r).corpus, Campaign(r).campaign) = {}
          /\ Len(events) + 1 \in EventsOfCampaign(events', "consume", Campaign(r).corpus,
                                                  Campaign(r).campaign)
      BY <2>2, <2>3
      DEF EventOk, TypeSpecificOk, ConsumeOk, ConsumeRequest, Campaign, Manifest,
          EventsOfCampaign, EventsOf
    <3>10. Campaign(r) \in Units
      BY <1>2, CampaignIsUnit DEF RecordFits
    <3>11. \A h \in history : h.of # Campaign(r)
      BY <3>9 DEF Custody, DeedTrue
    <3>12. CampaignTriedOnce'
      <4>1. Deed(r, "tried").of = Campaign(r)
        BY DEF Deed
      <4>2. QED
        BY <2>6, <3>11, <4>1 DEF CampaignTriedOnce, Custody
    <3>13. DeedTrue(Deed(r, "tried"))'
      <4>1. PICK d : d = Deed(r, "tried")
        OBVIOUS
      <4>2. /\ d.run = r /\ d.attempt = job[r].attempt /\ d.of = Campaign(r)
            /\ d.deed = "tried"
        BY <4>1 DEF Deed
      <4>3. job[r].attempt \in Nat /\ job[r].attempt <= job[r].attempt
        BY <1>1, <1>2, IsJob
      <4>4. d.of \in Units
            /\ EventsOfCampaign(events', "consume", d.of.corpus, d.of.campaign) # {}
        BY <3>9, <3>10, <4>2
      <4>5. DeedTrue(d)'
        BY <3>2, <3>3, <4>2, <4>3, <4>4 DEF DeedTrue
      <4>6. QED
        BY <3>6, <4>1, <4>5
    <3>14. \A h \in history' \ history : DeedTrue(h)'
      BY <2>6, <3>6, <3>13
    <3>15. EvidenceWithoutPayloads'
      BY <3>4, <3>5, EvidenceStays DEF Custody
    <3>16. PICK files \in SUBSET Files, state \in {"off", "starting", "up", "down"} :
             files = disk[r] /\ state = broker[r]
      BY <1>2
    <3>17. disk' = [disk EXCEPT ![r] = files] /\ broker' = [broker EXCEPT ![r] = state]
      BY <1>2, <3>4, <3>16
    <3>18. PICK new \in Jobs : new = rec
      BY <3>1
    <3>19. /\ job' = [job EXCEPT ![r] = new] /\ new.status = "running"
           /\ new.input = job[r].input /\ new.attempt = job[r].attempt
      BY <3>2, <3>3, <3>18
    <3>20. job[r].step \notin Unveiled
      BY <1>1 DEF Unveiled
    <3>21. returned' \ returned = {}
      BY <3>4
    <3>22. QED
      BY <1>1, <2>3, <2>4, <3>4, <3>5, <3>8, <3>12, <3>14, <3>15, <3>17, <3>19, <3>20, <3>21,
         JobMoves
  <2>7. CASE Fail(r)
    BY <1>1, <2>7, FailKeeps
  <2>8. QED
    BY <2>5, <2>6, <2>7 DEF Consume
<1>4. CASE Fail(r)
  BY <1>1, <1>4, FailKeeps
<1>5. QED
  <2>1. AppendOf(ConsumeRequest(r)) \/ Fail(r)
    BY DEF Consume
  <2>2. QED
    BY <1>3, <1>4, <2>1

(* The index holds the trials of the cohort, or one too few. *)
LEMMA TryKeeps ==
  ASSUME Custody, NEW r \in Runs, Try(r)
  PROVE  Custody'
<1>1. job[r].status = "running" /\ job[r].step = "try"
  BY DEF Try, At
<1>2. /\ DiskFits(r, "try", disk[r], broker[r])
      /\ RecordFits(r, "try", disk[r]) /\ Typed
      /\ disk[r] \in SUBSET Files /\ job[r] \in Jobs /\ InputOk(job[r].input)
  BY <1>1, Running
<1>3. PICK n \in {Trials(Manifest(r)) - 1, Trials(Manifest(r))} :
        job' = [job EXCEPT ![r].step = "rebuild", ![r].executions = n]
  BY DEF Try
<1>4. n \in Nat
  <2>1. IsFiniteSet(Manifest(r).caseEvents) /\ Manifest(r).caseEvents # {}
    BY <1>2
    DEF InputOk, Manifest, RecordFits, Verified, Rehearsed, Tried
  <2>2. Cardinality(Manifest(r).caseEvents) \in Nat \ {0}
    BY <2>1, FS_CardinalityType, FS_EmptySet
  <2>3. QED
    BY <1>3, <2>2 DEF Trials
<1> DEFINE rec == [job[r] EXCEPT !.step = "rebuild", !.executions = n]
<1>5. rec \in Jobs
  BY <1>2, <1>4 DEF Jobs
<1>6. /\ rec.status = "running" /\ rec.step = "rebuild" /\ rec.consume = job[r].consume
      /\ rec.input = job[r].input /\ rec.attempt = job[r].attempt
  BY <1>1, <1>2 DEF Jobs
<1>7. job' = [job EXCEPT ![r] = rec] /\ job'[r] = rec
  BY <1>2, <1>3 DEF Typed
<1> HIDE DEF rec
<1>8. /\ UNCHANGED <<events, attested, history, returned>>
      /\ UNCHANGED <<registry, release, history, returned>> /\ attested \subseteq attested'
  BY DEF Try, registry, record
<1>9. PICK files \in SUBSET Files : files = (disk[r] \ {"config"}) \cup {"index"}
  BY <1>2 DEF Files, RootFiles
<1>10. /\ disk' = [disk EXCEPT ![r] = files] /\ broker' = [broker EXCEPT ![r] = "off"]
       /\ disk'[r] = files /\ broker'[r] = "off"
  BY <1>2, <1>9 DEF Try, Typed
<1>11. /\ Deed(r, "tried")' = Deed(r, "tried") /\ Manifest(r)' = Manifest(r)
       /\ ConsumeRequest(r)' = ConsumeRequest(r)
  BY <1>6, <1>7 DEF Deed, Campaign, Manifest, ConsumeRequest
<1>12. ConsumedBy(r) => ConsumedBy(r)'
  BY <1>6, <1>7, <1>8, <1>11 DEF ConsumedBy
<1>13. JobTrue(r)'
  <2>1. RestTrue(r)'
    BY <1>6, <1>7 DEF RestTrue
  <2>2. DiskTrue(r)'
    BY <1>2, <1>6, <1>7, <1>9, <1>10
    DEF DiskTrue, DiskFits, Verified, Rehearsed, Tried, Indexed, Rebuilt, Attested,
        Sealed, Checked, Unveiled, TruthFiles
  <2>3. RecordTrue(r)'
    BY <1>2, <1>6, <1>7, <1>8, <1>11, <1>12
    DEF RecordTrue, RecordFits, Verified, Rehearsed, Tried, Indexed, Rebuilt, Attested,
        Sealed, Checked, Unveiled
  <2>4. QED
    BY <2>1, <2>2, <2>3 DEF JobTrue
<1>14. PICK new \in Jobs : new = rec
  BY <1>5
<1>15. /\ job' = [job EXCEPT ![r] = new] /\ new.status = "running"
       /\ new.input = job[r].input /\ new.attempt = job[r].attempt
  BY <1>6, <1>7, <1>14
<1>16. job[r].step \notin Unveiled
  BY <1>1 DEF Unveiled
<1>17. QED
  BY <1>1, <1>8, <1>10, <1>13, <1>15, <1>16, QuietMove

(* The index is rebuilt from the trials on the runner and compared. *)
LEMMA RebuildKeeps ==
  ASSUME Custody, NEW r \in Runs, Rebuild(r)
  PROVE  Custody'
<1>1. job[r].status = "running" /\ job[r].step = "rebuild"
  BY DEF Rebuild, At
<1>2. CASE IndexOk(r) /\ Proceed(r, TRUE, "attest", disk[r])
  <2>1. /\ DiskFits(r, "rebuild", disk[r], broker[r])
        /\ RecordFits(r, "rebuild", disk[r])
        /\ disk[r] \in SUBSET Files
    BY <1>1, Running
  <2>2. job[r].executions = Trials(Manifest(r))
    BY <1>2 DEF IndexOk
  <2>3. DiskFits(r, "attest", disk[r], broker[r])
    BY <2>1 DEF DiskFits, Verified, Rehearsed, Tried, Indexed, Rebuilt, Attested,
                Sealed, Checked, Unveiled
  <2>4. RecordFits(r, "attest", disk[r])
    BY <2>1, <2>2 DEF RecordFits, Verified, Rehearsed, Tried, Indexed, Rebuilt, Attested,
                Sealed, Checked, Unveiled
  <2>5. job[r].step \notin Unveiled
    BY <1>1 DEF Unveiled
  <2>6. QED
    BY <1>1, <1>2, <2>1, <2>3, <2>4, <2>5, ProceedKeeps
<1>3. CASE Fail(r)
  BY <1>1, <1>3, FailKeeps
<1>4. QED
  BY <1>2, <1>3 DEF Rebuild, Proceed

(* The attestation is of this attempt and this index. *)
LEMMA AttestKeeps ==
  ASSUME Custody, NEW r \in Runs, Attest(r)
  PROVE  Custody'
<1>1. job[r].status = "running" /\ job[r].step = "attest"
  BY DEF Attest, At
<1>2. /\ DiskFits(r, "attest", disk[r], broker[r])
      /\ RecordFits(r, "attest", disk[r]) /\ Typed
      /\ disk[r] \in SUBSET Files /\ broker[r] \in {"off", "starting", "up", "down"}
      /\ broker = [broker EXCEPT ![r] = broker[r]]
  BY <1>1, Running
<1>3. /\ [job[r] EXCEPT !.step = "seal"] \in Jobs
      /\ job' = [job EXCEPT ![r] = [job[r] EXCEPT !.step = "seal"]]
      /\ job'[r] = [job[r] EXCEPT !.step = "seal"]
      /\ job'[r].status = "running" /\ job'[r].step = "seal"
      /\ job'[r].input = job[r].input /\ job'[r].attempt = job[r].attempt
      /\ job'[r].sha = job[r].sha /\ job'[r].consume = job[r].consume
      /\ job'[r].executions = job[r].executions
  BY <1>1, <1>2, GoesOn DEF Attest
<1>4. /\ UNCHANGED <<events, history, returned>> /\ broker' = broker
      /\ UNCHANGED <<registry, release, history, returned>>
      /\ attested' = attested \cup {Attestation(r)} /\ attested \subseteq attested'
  BY DEF Attest, registry
<1>5. PICK files \in SUBSET Files, state \in {"off", "starting", "up", "down"} :
        files = disk[r] \cup {"sigstore"} /\ state = broker[r]
  BY <1>2 DEF Files, RootFiles
<1>6. /\ disk' = [disk EXCEPT ![r] = files] /\ broker' = [broker EXCEPT ![r] = state]
      /\ disk'[r] = files /\ broker'[r] = state
  BY <1>2, <1>4, <1>5 DEF Attest, Typed
<1>7. Grows
  BY <1>2, <1>4 DEF Grows, Typed
<1>8. /\ ConsumedBy(r) => ConsumedBy(r)'
      /\ Deed(r, "tried")' = Deed(r, "tried") /\ Attestation(r)' = Attestation(r)
      /\ Manifest(r)' = Manifest(r) /\ Trials(Manifest(r))' = Trials(Manifest(r))
  BY <1>3, <1>7, FactsStay
<1>9. JobTrue(r)'
  <2>1. RestTrue(r)'
    BY <1>3 DEF RestTrue
  <2>2. DiskTrue(r)'
    BY <1>2, <1>3, <1>5, <1>6
    DEF DiskTrue, DiskFits, Verified, Rehearsed, Tried, Indexed, Rebuilt, Attested,
        Sealed, Checked, Unveiled, TruthFiles
  <2>3. RecordTrue(r)'
    BY <1>2, <1>3, <1>4, <1>8
    DEF RecordTrue, RecordFits, Verified, Rehearsed, Tried, Indexed, Rebuilt, Attested,
        Sealed, Checked, Unveiled
  <2>4. QED
    BY <2>1, <2>2, <2>3 DEF JobTrue
<1>10. PICK new \in Jobs : new = [job[r] EXCEPT !.step = "seal"]
  BY <1>3
<1>11. /\ job' = [job EXCEPT ![r] = new] /\ new.status = "running"
       /\ new.input = job[r].input /\ new.attempt = job[r].attempt
  BY <1>3, <1>10
<1>12. job[r].step \notin Unveiled
  BY <1>1 DEF Unveiled
<1>13. QED
  BY <1>1, <1>4, <1>6, <1>9, <1>11, <1>12, QuietMove

(* The execution seal over the attested index is appended, or refused. *)
LEMMA SealKeeps ==
  ASSUME Custody, NEW r \in Runs, Seal(r)
  PROVE  Custody'
<1>1. job[r].status = "running" /\ job[r].step = "seal"
  BY DEF Seal, At
<1>2. /\ DiskFits(r, "seal", disk[r], broker[r])
      /\ RecordFits(r, "seal", disk[r]) /\ Typed
      /\ disk[r] \in SUBSET Files /\ job[r] \in Jobs /\ InputOk(job[r].input)
      /\ broker[r] \in {"off", "starting", "up", "down"}
      /\ broker = [broker EXCEPT ![r] = broker[r]]
  BY <1>1, Running
<1>3. job[r].step \notin Unveiled
  BY <1>1 DEF Unveiled
<1>4. CASE Fail(r)
  BY <1>1, <1>4, FailKeeps
<1>5. CASE Proceed(r, TRUE, "sealed", disk[r])
  <2>1. "execution-seal" \notin disk[r]
    BY <1>2 DEF DiskFits, Verified, Rehearsed, Tried, Indexed, Rebuilt, Attested,
                Sealed, Checked, Unveiled
  <2>2. DiskFits(r, "sealed", disk[r], broker[r])
    BY <1>2 DEF DiskFits, Verified, Rehearsed, Tried, Indexed, Rebuilt, Attested,
                Sealed, Checked, Unveiled
  <2>3. RecordFits(r, "sealed", disk[r])
    BY <1>2, <2>1 DEF RecordFits, Verified, Rehearsed, Tried, Indexed, Rebuilt, Attested,
                      Sealed, Checked, Unveiled
  <2>4. QED
    BY <1>1, <1>2, <1>3, <1>5, <2>2, <2>3, ProceedKeeps
<1>6. CASE AppendOf(SealRequest(r)) /\ UNCHANGED <<release, record>>
  <2>1. SealRequest(r) \in Request /\ SealRequest(r).eventType = "execution-seal"
    BY <1>2, SealIsRequest
  <2>2. PICK e \in Event :
          /\ EventOk(events, e) /\ events' = Append(events, e) /\ main' = main + 1
          /\ e.eventType = "execution-seal" /\ e.corpusId = SealRequest(r).corpusId
          /\ e.payload = SealRequest(r).payload
    BY <1>2, <1>6, <2>1, AppendRecords
  <2>3. /\ events' \in Seq(Event) /\ DOMAIN events \subseteq DOMAIN events'
        /\ \A n \in DOMAIN events : events'[n] = events[n]
        /\ Len(events) + 1 \in DOMAIN events' /\ events'[Len(events) + 1] = e
    BY <1>2, <2>2, AppendExtends
  <2>4. main' \in Nat
    BY <1>2, <2>2 DEF Typed
  <2>5. release' = release /\ UNCHANGED <<attested, history, returned>>
    BY <1>6 DEF record
  <2>6. Grows
    BY <2>3, <2>5 DEF Grows
  <2>7. CampaignTriedOnce' /\ EvidenceWithoutPayloads'
    BY <2>5, <2>6, EvidenceStays DEF Custody, CampaignTriedOnce
  <2>8. history' \ history = {} /\ returned' \ returned = {}
    BY <2>5
  <2>9. CASE End(r, "failure")
    <3>1. PICK rec \in Jobs :
            /\ job' = [job EXCEPT ![r] = rec]
            /\ rec.status = "failure" /\ rec.input = job[r].input
            /\ rec.attempt = job[r].attempt
      BY <1>1, <2>9, Emptied DEF Ended
    <3>2. /\ disk' = [disk EXCEPT ![r] = {}] /\ broker' = [broker EXCEPT ![r] = "off"]
          /\ JobTrue(r)'
      BY <1>1, <2>9, Emptied DEF Ended
    <3>3. /\ rec.status \in Ended \cup {"running"} /\ rec.status # "running"
          /\ {} \in SUBSET Files /\ "off" \in {"off", "starting", "up", "down"}
      BY <3>1 DEF Ended
    <3>4. QED
      BY <1>1, <2>4, <2>5, <2>6, <2>7, <2>8, <3>1, <3>2, <3>3, JobMoves
  <2>10. CASE /\ GoTo(r, "sealed")
              /\ disk' = [disk EXCEPT ![r] = @ \cup {"execution-seal"}]
              /\ broker' = broker
    <3>1. /\ [job[r] EXCEPT !.step = "sealed"] \in Jobs
          /\ job' = [job EXCEPT ![r] = [job[r] EXCEPT !.step = "sealed"]]
          /\ job'[r] = [job[r] EXCEPT !.step = "sealed"]
          /\ job'[r].status = "running" /\ job'[r].step = "sealed"
          /\ job'[r].input = job[r].input /\ job'[r].attempt = job[r].attempt
          /\ job'[r].sha = job[r].sha /\ job'[r].consume = job[r].consume
          /\ job'[r].executions = job[r].executions
      BY <1>1, <1>2, <2>10, GoesOn
    <3>2. PICK files \in SUBSET Files, state \in {"off", "starting", "up", "down"} :
            files = disk[r] \cup {"execution-seal"} /\ state = broker[r]
      BY <1>2 DEF Files, RootFiles
    <3>3. /\ disk' = [disk EXCEPT ![r] = files] /\ broker' = [broker EXCEPT ![r] = state]
          /\ disk'[r] = files /\ broker'[r] = state
      BY <1>2, <2>10, <3>2 DEF Typed
    <3>4. /\ ConsumedBy(r) => ConsumedBy(r)'
          /\ Deed(r, "tried")' = Deed(r, "tried") /\ Attestation(r)' = Attestation(r)
          /\ Manifest(r)' = Manifest(r) /\ Trials(Manifest(r))' = Trials(Manifest(r))
      BY <2>6, <3>1, FactsStay
    <3>5. SealedBy(r)'
      <4>1. /\ e.corpusId = Manifest(r).corpus
            /\ e.payload.campaign = job[r].input.campaign
            /\ e.payload.consumeEvent = job[r].consume
            /\ e.payload.executionCount = job[r].executions
            /\ e.payload.productCodeTip = job[r].input.productTip
        BY <2>2 DEF SealRequest, Manifest
      <4>2. Len(events) + 1 \in EventsOf(events', "execution-seal")
        BY <2>2, <2>3 DEF EventsOf
      <4>3. QED
        BY <2>3, <3>1, <3>4, <4>1, <4>2 DEF SealedBy
    <3>6. JobTrue(r)'
      <4>1. RestTrue(r)'
        BY <3>1 DEF RestTrue
      <4>2. DiskTrue(r)'
        BY <1>2, <3>1, <3>2, <3>3
        DEF DiskTrue, DiskFits, Verified, Rehearsed, Tried, Indexed, Rebuilt, Attested,
            Sealed, Checked, Unveiled, TruthFiles
      <4>3. RecordTrue(r)'
        BY <1>2, <2>5, <3>1, <3>4, <3>5
        DEF RecordTrue, RecordFits, Verified, Rehearsed, Tried, Indexed, Rebuilt, Attested,
            Sealed, Checked, Unveiled
      <4>4. QED
        BY <4>1, <4>2, <4>3 DEF JobTrue
    <3>7. PICK new \in Jobs : new = [job[r] EXCEPT !.step = "sealed"]
      BY <3>1
    <3>8. /\ job' = [job EXCEPT ![r] = new] /\ new.status = "running"
          /\ new.input = job[r].input /\ new.attempt = job[r].attempt
      BY <3>1, <3>7
    <3>9. QED
      BY <1>1, <1>3, <2>4, <2>5, <2>6, <2>7, <2>8, <3>3, <3>6, <3>8, JobMoves
  <2>11. QED
    BY <1>4, <1>5, <2>9, <2>10 DEF Seal
<1>7. QED
  BY <1>4, <1>5, <1>6 DEF Seal

(* The job goes on only when its own seal is in the registry. *)
LEMMA CheckSealKeeps ==
  ASSUME Custody, NEW r \in Runs, CheckSeal(r)
  PROVE  Custody'
<1>1. job[r].status = "running" /\ job[r].step = "sealed"
  BY DEF CheckSeal, At
<1>2. CASE SealPresent(r) /\ Proceed(r, TRUE, "unveil", disk[r])
  <2>1. /\ DiskFits(r, "sealed", disk[r], broker[r])
        /\ RecordFits(r, "sealed", disk[r])
        /\ disk[r] \in SUBSET Files
    BY <1>1, Running
  <2>2. "execution-seal" \in disk[r]
    BY <1>2 DEF SealPresent
  <2>3. DiskFits(r, "unveil", disk[r], broker[r])
    BY <2>1, <2>2 DEF DiskFits, Verified, Rehearsed, Tried, Indexed, Rebuilt, Attested,
                Sealed, Checked, Unveiled
  <2>4. RecordFits(r, "unveil", disk[r])
    BY <2>1 DEF RecordFits, Verified, Rehearsed, Tried, Indexed, Rebuilt, Attested,
                Sealed, Checked, Unveiled
  <2>5. job[r].step \notin Unveiled
    BY <1>1 DEF Unveiled
  <2>6. QED
    BY <1>1, <1>2, <2>1, <2>3, <2>4, <2>5, ProceedKeeps
<1>3. CASE Fail(r)
  BY <1>1, <1>3, FailKeeps
<1>4. QED
  BY <1>2, <1>3 DEF CheckSeal, Proceed

(* The seal a job goes on with is complete: the job appended it over its    *)
(* own index, whose trials it counted against its manifest.                *)
LEMMA OwnSealComplete ==
  ASSUME NEW r \in Runs, RecordFits(r, "unveil", disk[r]), "execution-seal" \in disk[r],
         NEW d, d.run = r, d.attempt = job[r].attempt, d.of = Campaign(r)
  PROVE  SealedComplete(d)
<1>1. /\ ConsumedBy(r) /\ SealedBy(r) /\ Attestation(r) \in attested
      /\ job[r].executions = Trials(Manifest(r))
  BY DEF RecordFits, Tried, Indexed, Rebuilt, Attested, Sealed, Checked
<1>2. PICK x \in EventsOf(events, "execution-seal") :
        /\ events[x].corpusId = Manifest(r).corpus
        /\ events[x].payload.campaign = job[r].input.campaign
        /\ events[x].payload.consumeEvent = job[r].consume
        /\ events[x].payload.executionCount = job[r].executions
  BY <1>1 DEF SealedBy
<1>3. x \in EventsOfCampaign(events, "execution-seal", d.of.corpus, d.of.campaign)
  BY <1>2 DEF EventsOfCampaign, Campaign
<1>4. /\ job[r].consume \in DOMAIN events
      /\ events[job[r].consume].payload.caseEvents = Manifest(r).caseEvents
  BY <1>1 DEF ConsumedBy, ConsumeRequest, Manifest
<1>5. /\ Attestation(r).run = d.run /\ Attestation(r).attempt = d.attempt
      /\ Attestation(r).of = d.of /\ Attestation(r).executions = job[r].executions
  BY DEF Attestation
<1>6. QED
  BY <1>1, <1>2, <1>3, <1>4, <1>5 DEF SealedComplete, Trials

(* The truth is unveiled to the attempt that tried the campaign. *)
LEMMA UnveilKeeps ==
  ASSUME Custody, NEW r \in Runs, Unveil(r)
  PROVE  Custody'
<1>1. job[r].status = "running" /\ job[r].step = "unveil"
  BY DEF Unveil, At
<1>2. /\ DiskFits(r, "unveil", disk[r], broker[r])
      /\ RecordFits(r, "unveil", disk[r]) /\ Typed
      /\ disk[r] \in SUBSET Files /\ job[r] \in Jobs /\ InputOk(job[r].input)
      /\ broker[r] \in {"off", "starting", "up", "down"}
      /\ broker = [broker EXCEPT ![r] = broker[r]]
  BY <1>1, Running
<1>3. CASE Fail(r)
  BY <1>1, <1>3, FailKeeps
<1>4. CASE /\ GoTo(r, "compare")
           /\ disk' = [disk EXCEPT ![r] = @ \cup job[r].input.truth.files]
           /\ history' = history \cup {Deed(r, "unveiled")}
           /\ UNCHANGED <<registry, release, broker, attested, returned>>
  <2>1. /\ [job[r] EXCEPT !.step = "compare"] \in Jobs
        /\ job' = [job EXCEPT ![r] = [job[r] EXCEPT !.step = "compare"]]
        /\ job'[r] = [job[r] EXCEPT !.step = "compare"]
        /\ job'[r].status = "running" /\ job'[r].step = "compare"
        /\ job'[r].input = job[r].input /\ job'[r].attempt = job[r].attempt
        /\ job'[r].sha = job[r].sha /\ job'[r].consume = job[r].consume
        /\ job'[r].executions = job[r].executions
    BY <1>1, <1>2, <1>4, GoesOn
  <2>2. PICK files \in SUBSET Files, state \in {"off", "starting", "up", "down"} :
          files = disk[r] \cup job[r].input.truth.files /\ state = broker[r]
    BY <1>2 DEF InputOk
  <2>3. /\ disk' = [disk EXCEPT ![r] = files] /\ broker' = [broker EXCEPT ![r] = state]
        /\ disk'[r] = files /\ broker'[r] = state
    BY <1>2, <1>4, <2>2 DEF Typed
  <2>4. /\ UNCHANGED <<events, attested, returned>> /\ release' = release
        /\ main' = main /\ main' \in Nat
        /\ history' = history \cup {Deed(r, "unveiled")}
    BY <1>2, <1>4 DEF registry, Typed
  <2>5. Grows
    BY <1>2, <2>4 DEF Grows, Typed
  <2>6. /\ ConsumedBy(r) => ConsumedBy(r)'
        /\ SealedBy(r) => SealedBy(r)'
        /\ Deed(r, "tried")' = Deed(r, "tried")
        /\ Deed(r, "unveiled")' = Deed(r, "unveiled")
        /\ Attestation(r)' = Attestation(r)
        /\ Manifest(r)' = Manifest(r)
        /\ Trials(Manifest(r))' = Trials(Manifest(r))
    BY <2>1, <2>5, FactsStay
  <2>7. /\ ConsumedBy(r) /\ Deed(r, "tried") \in history /\ SealedBy(r)
        /\ "execution-seal" \in disk[r] /\ job[r].input.campaign \in Official
    BY <1>2 DEF DiskFits, RecordFits, Verified, Rehearsed, Tried, Indexed, Rebuilt, Attested,
                Sealed, Checked, Unveiled
  <2>8. JobTrue(r)'
    <3>1. RestTrue(r)'
      BY <2>1 DEF RestTrue
    <3>2. DiskTrue(r)'
      BY <1>2, <2>1, <2>2, <2>3
      DEF DiskTrue, DiskFits, Verified, Rehearsed, Tried, Indexed, Rebuilt, Attested,
          Sealed, Checked, Unveiled
    <3>3. RecordTrue(r)'
      BY <1>2, <2>1, <2>4, <2>6, <2>7
      DEF RecordTrue, RecordFits, Verified, Rehearsed, Tried, Indexed, Rebuilt, Attested,
          Sealed, Checked, Unveiled
    <3>4. QED
      BY <3>1, <3>2, <3>3 DEF JobTrue
  <2>9. CampaignTriedOnce'
    <3>1. /\ Deed(r, "tried").of = Deed(r, "unveiled").of
          /\ Deed(r, "tried").run = Deed(r, "unveiled").run
          /\ Deed(r, "tried").attempt = Deed(r, "unveiled").attempt
      BY DEF Deed
    <3>2. PICK d, t : d = Deed(r, "unveiled") /\ t = Deed(r, "tried")
      OBVIOUS
    <3>3. /\ history' = history \cup {d} /\ t \in history
          /\ t.of = d.of /\ t.run = d.run /\ t.attempt = d.attempt
      BY <2>4, <2>7, <3>1, <3>2
    <3>4. CampaignTriedOnce
      BY DEF Custody
    <3>5. ASSUME NEW h \in history', NEW g \in history', h.of = g.of
          PROVE  h.run = g.run /\ h.attempt = g.attempt
      BY <3>3, <3>4, <3>5 DEF CampaignTriedOnce
    <3>6. QED
      BY <3>5 DEF CampaignTriedOnce
  <2>10. \A h \in history' \ history : DeedTrue(h)'
    <3>1. SUFFICES ASSUME NEW d, d = Deed(r, "unveiled")
                   PROVE  DeedTrue(d)'
      BY <2>4
    <3>2. /\ d.run = r /\ d.attempt = job[r].attempt /\ d.of = Campaign(r)
          /\ d.deed = "unveiled"
      BY <3>1 DEF Deed
    <3>3. job[r].attempt \in Nat /\ job[r].attempt <= job[r].attempt
      BY <1>1, <1>2, IsJob
    <3>4. d.of \in Units
      BY <1>2, <2>7, <3>2, CampaignIsUnit
    <3>5. EventsOfCampaign(events, "consume", d.of.corpus, d.of.campaign) # {}
      <4>1. DeedTrue(Deed(r, "tried")) /\ Deed(r, "tried").of = d.of
        BY <2>7, <3>2 DEF Custody, Deed
      <4>2. QED
        BY <4>1 DEF DeedTrue
    <3>6. EventsOfCampaign(events', "consume", d.of.corpus, d.of.campaign) # {}
      BY <2>4, <3>5
    <3>7. SealedComplete(d)
      <4>1. RecordFits(r, "unveil", disk[r]) /\ "execution-seal" \in disk[r]
        BY <1>2, <2>7
      <4>2. QED
        BY <1>2, <3>2, <4>1, OwnSealComplete
    <3>8. SealedComplete(d)'
      BY <2>5, <3>7, SealStays
    <3>9. QED
      BY <2>1, <3>2, <3>3, <3>4, <3>6, <3>8 DEF DeedTrue, Unveiled
  <2>11. EvidenceWithoutPayloads'
    BY <2>4, <2>5, EvidenceStays DEF Custody
  <2>12. PICK new \in Jobs : new = [job[r] EXCEPT !.step = "compare"]
    BY <2>1
  <2>13. /\ job' = [job EXCEPT ![r] = new] /\ new.status = "running" /\ new.step = "compare"
         /\ new.input = job[r].input /\ new.attempt = job[r].attempt
    BY <2>1, <2>12
  <2>14. /\ job[r].step \notin Unveiled /\ returned' \ returned = {}
    BY <1>1, <2>4 DEF Unveiled
  <2>15. QED
    BY <1>1, <2>3, <2>4, <2>5, <2>8, <2>9, <2>10, <2>11, <2>13, <2>14, JobMoves
<1>5. QED
  BY <1>3, <1>4 DEF Unveil

(* The opened truth is compared with what the manifest binds of it. *)
LEMMA VerifyTruthKeeps ==
  ASSUME Custody, NEW r \in Runs, VerifyTruth(r)
  PROVE  Custody'
<1> DEFINE files == disk[r] \ {"truth.bundle", "bundle-key"}
<1>1. job[r].status = "running" /\ job[r].step = "compare"
  BY DEF VerifyTruth, At
<1>2. CASE job[r].input.truth.files = TruthFiles /\ Proceed(r, TRUE, "grade", files)
  <2>1. /\ DiskFits(r, "compare", disk[r], broker[r])
        /\ RecordFits(r, "compare", disk[r])
        /\ disk[r] \in SUBSET Files
    BY <1>1, Running
  <2>2. DiskFits(r, "grade", files, broker[r])
    BY <2>1 DEF DiskFits, Verified, Rehearsed, Tried, Indexed, Rebuilt, Attested,
                Sealed, Checked, Unveiled
  <2>3. RecordFits(r, "grade", files)
    BY <1>2, <2>1 DEF RecordFits, Verified, Rehearsed, Tried, Indexed, Rebuilt, Attested,
                Sealed, Checked, Unveiled
  <2>4. files \in SUBSET Files /\ "grade" \in Unveiled
    BY <2>1 DEF Unveiled
  <2> HIDE DEF files
  <2>5. QED
    BY <1>1, <1>2, <2>2, <2>3, <2>4, ProceedKeeps
<1>3. CASE Fail(r)
  BY <1>1, <1>3, FailKeeps
<1>4. QED
  BY <1>2, <1>3 DEF VerifyTruth, Proceed

(* Grading adds the report on the runner. *)
LEMMA GradeKeeps ==
  ASSUME Custody, NEW r \in Runs, Grade(r)
  PROVE  Custody'
<1> DEFINE files == disk[r] \cup {"grade"}
<1>1. job[r].status = "running" /\ job[r].step = "grade" /\ Proceed(r, TRUE, "return", files)
  BY DEF Grade, At
<1>2. /\ DiskFits(r, "grade", disk[r], broker[r])
      /\ RecordFits(r, "grade", disk[r])
      /\ disk[r] \in SUBSET Files
  BY <1>1, Running
<1>3. DiskFits(r, "return", files, broker[r])
  BY <1>2 DEF DiskFits, Verified, Rehearsed, Tried, Indexed, Rebuilt, Attested,
              Sealed, Checked, Unveiled
<1>4. RecordFits(r, "return", files)
  BY <1>2 DEF RecordFits, Verified, Rehearsed, Tried, Indexed, Rebuilt, Attested,
              Sealed, Checked, Unveiled
<1>5. files \in SUBSET Files /\ "return" \in Unveiled
  BY <1>2 DEF Files, RootFiles, Unveiled
<1> HIDE DEF files
<1>6. QED
  BY <1>1, <1>3, <1>4, <1>5, ProceedKeeps

(* What is returned holds the record of the evaluation and no payload. *)
LEMMA ReturnKeeps ==
  ASSUME Custody, NEW r \in Runs, Return(r)
  PROVE  Custody'
<1> DEFINE bundle == [run |-> r, attempt |-> job[r].attempt, of |-> Campaign(r),
                      files |-> Returnable(r)]
<1>1. job[r].status = "running" /\ job[r].step = "return"
  BY DEF Return, At
<1>2. /\ DiskFits(r, "return", disk[r], broker[r])
      /\ RecordFits(r, "return", disk[r]) /\ Typed
      /\ job[r] \in Jobs /\ InputOk(job[r].input)
  BY <1>1, Running
<1>3. /\ {"index", "sigstore", "execution-seal", "model-receipts", "grade"} \subseteq disk[r]
      /\ job[r].input.truth.files = TruthFiles /\ job[r].input.campaign \in Official
      /\ SealedBy(r) /\ Deed(r, "unveiled") \in history
  BY <1>2 DEF DiskFits, RecordFits, Verified, Rehearsed, Tried, Indexed, Rebuilt, Attested,
              Sealed, Checked, Unveiled
<1>4. End(r, "success") /\ returned' = returned \cup {bundle}
  BY DEF Return
<1>5. /\ UNCHANGED <<events, attested, history>> /\ release' = release
      /\ main' = main /\ main' \in Nat
  BY <1>2 DEF Return, registry, Typed
<1>6. Grows
  BY <1>2, <1>4, <1>5 DEF Grows, Typed
<1>7. PICK rec \in Jobs :
        /\ job' = [job EXCEPT ![r] = rec]
        /\ rec.status = "success" /\ rec.input = job[r].input
        /\ rec.attempt = job[r].attempt
  BY <1>1, <1>4, Emptied DEF Ended
<1>8. /\ disk' = [disk EXCEPT ![r] = {}] /\ broker' = [broker EXCEPT ![r] = "off"]
      /\ job'[r].status = "success" /\ job'[r].attempt = job[r].attempt
      /\ JobTrue(r)'
  BY <1>1, <1>4, Emptied DEF Ended
<1>9. Campaign(r) \in Units /\ Campaign(r) \in UnitsOf("execution-seal")
  <2>1. Campaign(r) \in Units
    BY <1>2, <1>3, CampaignIsUnit
  <2>2. EventsOfCampaign(events, "execution-seal", Campaign(r).corpus, Campaign(r).campaign)
          # {}
    BY <1>3 DEF SealedBy, EventsOfCampaign, Campaign
  <2>3. QED
    BY <2>1, <2>2 DEF UnitsOf
<1>10. PICK b : b = bundle
  OBVIOUS
<1>11. /\ b.run = r /\ b.attempt = job[r].attempt /\ b.of = Campaign(r)
       /\ b.files = Returnable(r)
  BY <1>10
<1>12. returned' = returned \cup {b}
  BY <1>4, <1>10
<1> HIDE DEF bundle
<1>13. EvidenceWithoutPayloads'
  <2>1. /\ b.files \cap (TruthFiles \cup {"source"}) = {}
        /\ {"index", "sigstore", "execution-seal", "model-receipts", "grade"} \subseteq b.files
    BY <1>3, <1>11 DEF Returnable, TruthFiles, RootFiles
  <2>2. UnitsOf("execution-seal")' = UnitsOf("execution-seal")
    BY <1>5 DEF UnitsOf
  <2>3. EvidenceWithoutPayloads
    BY DEF Custody
  <2>4. QED
    BY <1>9, <1>11, <1>12, <2>1, <2>2, <2>3 DEF EvidenceWithoutPayloads
<1>14. BundleTrue(b)'
  <2>1. job[r].attempt \in Nat /\ job[r].attempt <= job[r].attempt
    BY <1>1, <1>2, IsJob
  <2>2. [deed |-> "unveiled", run |-> b.run, attempt |-> b.attempt, of |-> b.of] \in history
    BY <1>3, <1>11 DEF Deed
  <2>3. QED
    BY <1>5, <1>8, <1>11, <2>1, <2>2 DEF BundleTrue, Ended
<1>15. CampaignTriedOnce'
  BY <1>5 DEF Custody, CampaignTriedOnce
<1>16. /\ rec.status \in Ended \cup {"running"} /\ rec.status # "running"
       /\ {} \in SUBSET Files /\ "off" \in {"off", "starting", "up", "down"}
  BY <1>7 DEF Ended
<1>17. /\ history' \ history = {} /\ \A q \in returned' \ returned : BundleTrue(q)'
       /\ EventsOf(events', "execution-seal") \ EventsOf(events, "execution-seal") = {}
  BY <1>5, <1>12, <1>14
<1>18. QED
  BY <1>1, <1>5, <1>6, <1>7, <1>8, <1>13, <1>15, <1>16, <1>17, JobMoves

-----------------------------------------------------------------------------
(* Steps of the dispatcher, of the service and of other callers.            *)

(* A step that moves no job: releases change, or the registry grows.        *)
LEMMA NobodyMoves ==
  ASSUME Custody, Grows, UNCHANGED <<job, runner, record>>,
         release' \in [Ids -> Releases], main' \in Nat
  PROVE  Custody'
<1>1. Typed /\ OneRunning
  BY TypesHold DEF Custody
<1>2. UNCHANGED <<job, broker, disk, attested, history, returned>>
  BY DEF runner, record
<1>3. Typed'
  BY <1>1, <1>2 DEF Typed, Grows
<1>4. OneRunning'
  BY <1>1, <1>2 DEF OneRunning
<1>5. \A r \in Runs : JobTrue(r)' /\ FollowsOn(r)
  BY <1>1, <1>2, JobStays, JobFollowsOn DEF Custody
<1>6. CampaignTriedOnce' /\ EvidenceWithoutPayloads'
  BY <1>2, EvidenceStays DEF Custody, CampaignTriedOnce
<1>7. QED
  BY <1>2, <1>3, <1>4, <1>5, <1>6, CustodyStays

(* A step that records nothing lets the record grow by nothing. *)
LEMMA SameRecordsGrow ==
  ASSUME Typed, UNCHANGED <<events, record>>
  PROVE  Grows
BY DEF Typed, Grows, record

(* A dispatcher stages its ciphertexts on the release. *)
LEMMA StageKeeps ==
  ASSUME Custody, NEW i \in Inputs, Stage(i)
  PROVE  Custody'
<1>1. Typed
  BY TypesHold DEF Custody
<1>2. UNCHANGED <<events, main, job, runner, record>>
  BY DEF Stage, registry
<1>3. release' \in [Ids -> Releases]
  <2>1. [target |-> main, source |-> i.source, truth |-> i.truth] \in Releases
    BY <1>1 DEF Typed, Releases
  <2>2. QED
    BY <1>1, <2>1 DEF Typed, Stage
<1>4. Grows
  BY <1>1, <1>2, SameRecordsGrow
<1>5. main' \in Nat /\ UNCHANGED <<job, runner, record>>
  BY <1>1, <1>2 DEF Typed
<1>6. QED
  BY <1>3, <1>4, <1>5, NobodyMoves

(* A dispatcher takes a release back. *)
LEMMA UnstageKeeps ==
  ASSUME Custody, NEW q \in Ids, Unstage(q)
  PROVE  Custody'
<1>1. Typed
  BY TypesHold DEF Custody
<1>2. UNCHANGED <<events, main, job, runner, record>>
  BY DEF Unstage, registry
<1>3. release' \in [Ids -> Releases]
  BY <1>1 DEF Typed, Unstage, Releases
<1>4. Grows
  BY <1>1, <1>2, SameRecordsGrow
<1>5. main' \in Nat /\ UNCHANGED <<job, runner, record>>
  BY <1>1, <1>2 DEF Typed
<1>6. QED
  BY <1>3, <1>4, <1>5, NobodyMoves

(* A merge moves main and no job. *)
LEMMA MergeCodeKeeps ==
  ASSUME Custody, MergeCode
  PROVE  Custody'
<1>1. Typed
  BY TypesHold DEF Custody
<1>2. UNCHANGED <<events, release, job, runner, record>> /\ main' = main + 1
  BY DEF MergeCode
<1>3. Grows
  BY <1>1, <1>2, SameRecordsGrow
<1>4. main' \in Nat /\ release' \in [Ids -> Releases] /\ UNCHANGED <<job, runner, record>>
  BY <1>1, <1>2 DEF Typed
<1>5. QED
  BY <1>3, <1>4, NobodyMoves

(* Whatever other callers append, no job and no deed is touched. *)
LEMMA OtherAppendKeeps ==
  ASSUME Custody, OtherAppend
  PROVE  Custody'
<1>1. Typed
  BY TypesHold DEF Custody
<1>2. PICK request \in Requests : AppendOf(request)
  BY DEF OtherAppend
<1>3. request \in Request
  BY EvaluatorAssumption
<1>4. PICK e \in Event :
        /\ EventOk(events, e) /\ events' = Append(events, e) /\ main' = main + 1
        /\ e.eventType = request.eventType /\ e.corpusId = request.corpusId
        /\ e.eventType # "source-release" => e.payload = request.payload
  BY <1>1, <1>2, <1>3, AppendRecords
<1>5. /\ events' \in Seq(Event) /\ DOMAIN events \subseteq DOMAIN events'
      /\ \A n \in DOMAIN events : events'[n] = events[n]
      /\ events'[Len(events) + 1] = e
  BY <1>1, <1>4, AppendExtends
<1>6. UNCHANGED <<release, job, runner, record>>
  BY DEF OtherAppend
<1>7. Grows
  BY <1>5, <1>6 DEF Grows, record
<1>8. main' \in Nat /\ release' \in [Ids -> Releases] /\ UNCHANGED <<job, runner, record>>
  BY <1>1, <1>4, <1>6 DEF Typed
<1>9. QED
  BY <1>7, <1>8, NobodyMoves

(* A step of the service: no runner is touched and nothing is recorded. *)
LEMMA ServiceKeeps ==
  ASSUME Custody, UNCHANGED <<registry, release, runner, record>>,
         job' \in [Runs -> [status : {"idle"}] \cup Jobs], OneRunning',
         \A s \in Runs : FollowsOn(s),
         \A s \in Runs : JobTrue(s)'
  PROVE  Custody'
<1>1. Typed
  BY TypesHold DEF Custody
<1>2. UNCHANGED <<events, main, release, broker, disk, attested, history, returned>>
      /\ UNCHANGED <<events, record>>
  BY DEF registry, runner, record
<1>3. Grows
  BY <1>1, <1>2, SameRecordsGrow
<1>4. Typed'
  BY <1>1, <1>2 DEF Typed
<1>5. CampaignTriedOnce' /\ EvidenceWithoutPayloads'
  BY <1>2, <1>3, EvidenceStays DEF Custody, CampaignTriedOnce
<1>6. \A s \in Runs : JobTrue(s)' /\ FollowsOn(s)
  OBVIOUS
<1>7. history' \ history = {} /\ returned' \ returned = {}
  BY <1>2
<1>8. QED
  BY <1>3, <1>4, <1>5, <1>6, <1>7, CustodyStays

(* A run that is pending or has ended stands at the start of its steps. *)
LEMMA RestStays ==
  ASSUME NEW s \in Runs, JobTrue(s), job[s].status # "running", UNCHANGED runner,
         job'[s].status # "running",
         job'[s].status # "idle" => job'[s].step = "pin"
  PROVE  JobTrue(s)'
<1>1. disk[s] = {} /\ broker[s] = "off" /\ UNCHANGED <<broker, disk>>
  BY DEF JobTrue, RestTrue, runner
<1>2. QED
  BY <1>1 DEF JobTrue, RestTrue, DiskTrue, RecordTrue

(* A pending job starts when its request's group is free. *)
LEMMA StartKeeps ==
  ASSUME Custody, NEW r \in Runs, Start(r)
  PROVE  Custody'
<1>1. Typed /\ OneRunning /\ JobTrue(r)
  BY TypesHold DEF Custody
<1>2. /\ job[r].status = "pending" /\ UNCHANGED <<registry, release, runner, record>>
      /\ \A s \in Runs : job[s].status = "running" => job[s].input.id # job[r].input.id
      /\ job' = [job EXCEPT ![r].status = "running"]
  BY DEF Start
<1>3. job[r] \in Jobs /\ job[r].attempt \in Nat
  BY <1>1, <1>2, IsJob
<1> DEFINE rec == [job[r] EXCEPT !.status = "running"]
<1>4. /\ rec \in Jobs /\ rec.status = "running" /\ rec.step = job[r].step
      /\ rec.input = job[r].input /\ rec.attempt = job[r].attempt
  BY <1>3 DEF Jobs
<1>5. /\ job' = [job EXCEPT ![r] = rec] /\ job'[r] = rec
      /\ \A s \in Runs : s # r => job'[s] = job[s]
  BY <1>1, <1>2 DEF Typed
<1> HIDE DEF rec
<1>6. job' \in [Runs -> [status : {"idle"}] \cup Jobs]
  BY <1>1, <1>4, <1>5 DEF Typed
<1>7. OneRunning'
  BY <1>1, <1>2, <1>4, <1>5 DEF OneRunning
<1>8. /\ job[r].step = "pin" /\ disk[r] = {} /\ broker[r] = "off"
      /\ UNCHANGED <<broker, disk>>
  BY <1>1, <1>2 DEF JobTrue, RestTrue, runner
<1>9. JobTrue(r)'
  BY <1>4, <1>5, <1>8
  DEF JobTrue, RestTrue, DiskTrue, RecordTrue, DiskFits, RecordFits, Verified, Rehearsed,
      Tried, Indexed, Rebuilt, Attested, Sealed, Checked, Unveiled
<1>10. FollowsOn(r)
  BY <1>2, <1>3, <1>4, <1>5 DEF FollowsOn, Ended
<1>11. Grows
  <2>1. UNCHANGED <<events, record>>
    BY <1>2 DEF registry
  <2>2. QED
    BY <1>1, <2>1, SameRecordsGrow
<1>12. ASSUME NEW s \in Runs
       PROVE  JobTrue(s)' /\ FollowsOn(s)
  <2>1. CASE s = r
    BY <1>9, <1>10, <2>1
  <2>2. CASE s # r
    <3>1. JobTrue(s) /\ job'[s] = job[s] /\ disk'[s] = disk[s] /\ broker'[s] = broker[s]
      BY <1>5, <1>8, <2>2 DEF Custody
    <3>2. QED
      BY <1>1, <1>11, <3>1, JobStays, JobFollowsOn
  <2>3. QED
    BY <2>1, <2>2
<1>13. QED
  BY <1>2, <1>6, <1>7, <1>12, ServiceKeeps

(* Entering a group: the run is pending, a pending rival is cancelled. *)
LEMMA EnqueueKeeps ==
  ASSUME Custody, NEW r \in Runs, NEW new \in Jobs, Enqueue(r, new),
         UNCHANGED <<registry, release, runner, record>>,
         job[r].status \notin {"pending", "running"},
         new.status = "pending", new.step = "pin",
         job[r].status # "idle" => job[r].attempt < new.attempt
  PROVE  Custody'
<1>1. Typed /\ OneRunning
  BY TypesHold DEF Custody
<1>2. /\ job'[r] = new
      /\ \A s \in Runs : s # r =>
           job'[s] = IF job[s].status = "pending" /\ job[s].input.id = new.input.id
                     THEN [job[s] EXCEPT !.status = "cancelled"] ELSE job[s]
  BY DEF Enqueue
<1>3. new.attempt \in Nat
  BY EvaluatorAssumption DEF Jobs
<1>4. Grows
  <2>1. UNCHANGED <<events, record>>
    BY DEF registry
  <2>2. QED
    BY <1>1, <2>1, SameRecordsGrow
<1>5. ASSUME NEW s \in Runs, s # r
      PROVE  /\ job'[s] \in [status : {"idle"}] \cup Jobs
             /\ job'[s].status = "running" => job'[s] = job[s]
             /\ JobTrue(s)' /\ FollowsOn(s)
  <2>1. JobTrue(s) /\ UNCHANGED <<disk, broker>>
    BY DEF Custody, runner
  <2>2. CASE job[s].status = "pending" /\ job[s].input.id = new.input.id
    <3>1. job'[s] = [job[s] EXCEPT !.status = "cancelled"]
      BY <1>2, <1>5, <2>2
    <3>2. job[s] \in Jobs /\ job[s].attempt \in Nat
      BY <1>1, <2>2, IsJob
    <3>3. /\ job'[s] \in Jobs /\ job'[s].status = "cancelled"
          /\ job'[s].attempt = job[s].attempt /\ job'[s].step = job[s].step
      BY <3>1, <3>2 DEF Jobs, Ended
    <3>4. JobTrue(s)'
      <4>1. job[s].step = "pin"
        BY <2>1, <2>2 DEF JobTrue, RestTrue
      <4>2. QED
        BY <2>1, <2>2, <3>3, <4>1, RestStays
    <3>5. FollowsOn(s)
      BY <2>2, <3>2, <3>3 DEF FollowsOn, Ended
    <3>6. QED
      BY <3>3, <3>4, <3>5
  <2>3. CASE ~(job[s].status = "pending" /\ job[s].input.id = new.input.id)
    <3>1. job'[s] = job[s]
      BY <1>2, <1>5, <2>3
    <3>2. JobTrue(s)' /\ FollowsOn(s)
      BY <1>1, <1>4, <2>1, <3>1, JobStays, JobFollowsOn
    <3>3. QED
      BY <1>1, <3>1, <3>2 DEF Typed
  <2>4. QED
    BY <2>2, <2>3
<1>6. JobTrue(r)'
  <2>1. JobTrue(r)
    BY DEF Custody
  <2>2. QED
    BY <1>2, <2>1, RestStays
<1>7. FollowsOn(r)
  <2>1. job[r].status # "idle" => job[r].attempt \in Nat
    BY <1>1, IsJob
  <2>2. QED
    BY <1>2, <1>3, <2>1 DEF FollowsOn
<1>8. job' \in [Runs -> [status : {"idle"}] \cup Jobs]
  BY <1>2, <1>5 DEF Enqueue
<1>9. OneRunning'
  BY <1>1, <1>2, <1>5 DEF OneRunning
<1>10. \A s \in Runs : JobTrue(s)' /\ FollowsOn(s)
  BY <1>5, <1>6, <1>7
<1>11. QED
  BY <1>8, <1>9, <1>10, ServiceKeeps

(* A dispatch enters a new job into the queue of its request. *)
LEMMA DispatchKeeps ==
  ASSUME Custody, NEW r \in Runs, Dispatch(r)
  PROVE  Custody'
<1>1. Typed
  BY TypesHold DEF Custody
<1>2. PICK i \in Inputs :
        /\ release[i.id] # None
        /\ Enqueue(r, [status |-> "pending", step |-> "pin", input |-> i, attempt |-> 1,
                       sha |-> main, policy |-> release[i.id].target, polls |-> 0,
                       consume |-> 0, executions |-> 0])
  BY DEF Dispatch
<1> DEFINE new == [status |-> "pending", step |-> "pin", input |-> i, attempt |-> 1,
                   sha |-> main, policy |-> release[i.id].target, polls |-> 0,
                   consume |-> 0, executions |-> 0]
<1>3. release[i.id].target \in Nat
  <2>1. i.id \in Ids
    BY DEF Ids
  <2>2. release[i.id] \in Releases
    BY <1>1, <2>1 DEF Typed
  <2>3. QED
    BY <1>2, <2>2 DEF Releases
<1>4. 1 \in 1 .. MaxAttempts /\ 0 \in 0 .. MaxPolls
  BY EvaluatorAssumption
<1>5. new \in Jobs
  BY <1>1, <1>3, <1>4 DEF Jobs, Typed
<1>6. new.status = "pending" /\ new.step = "pin" /\ Enqueue(r, new)
  BY <1>2
<1>7. job[r].status = "idle" /\ UNCHANGED <<registry, release, runner, record>>
  BY DEF Dispatch
<1> HIDE DEF new
<1>8. PICK rec \in Jobs : rec = new
  BY <1>5
<1>9. Enqueue(r, rec) /\ rec.status = "pending" /\ rec.step = "pin"
  BY <1>6, <1>8
<1>10. QED
  BY <1>7, <1>9, EnqueueKeeps

(* A re-run is a new attempt on an empty runner. *)
LEMMA RerunKeeps ==
  ASSUME Custody, NEW r \in Runs, Rerun(r)
  PROVE  Custody'
<1>1. Typed /\ JobTrue(r)
  BY TypesHold DEF Custody
<1>2. /\ job[r].status \in Ended /\ job[r].attempt < MaxAttempts
      /\ Enqueue(r, [job[r] EXCEPT !.status = "pending", !.attempt = @ + 1])
      /\ UNCHANGED <<registry, release, runner, record>>
  BY DEF Rerun
<1>3. job[r].status \notin {"idle", "pending", "running"}
  BY <1>2 DEF Ended
<1>4. job[r] \in Jobs /\ job[r].attempt \in Nat /\ job[r].step = "pin"
  BY <1>1, <1>3, IsJob DEF JobTrue, RestTrue
<1> DEFINE new == [job[r] EXCEPT !.status = "pending", !.attempt = @ + 1]
<1>5. new \in Jobs
  <2>1. job[r].attempt + 1 \in 1 .. MaxAttempts
    BY <1>2, <1>4, EvaluatorAssumption DEF Jobs
  <2>2. QED
    BY <1>4, <2>1 DEF Jobs
<1>6. /\ new.status = "pending" /\ new.step = "pin" /\ job[r].attempt < new.attempt
      /\ Enqueue(r, new)
  BY <1>2, <1>4 DEF Jobs
<1> HIDE DEF new
<1>7. PICK rec \in Jobs : rec = new
  BY <1>5
<1>8. /\ Enqueue(r, rec) /\ rec.status = "pending" /\ rec.step = "pin"
      /\ job[r].attempt < rec.attempt
  BY <1>6, <1>7
<1>9. QED
  BY <1>2, <1>3, <1>8, EnqueueKeeps

-----------------------------------------------------------------------------
(* Every step of a running job keeps Custody. *)
LEMMA StepKeepsCustody ==
  ASSUME Custody, NEW r \in Runs, Step(r)
  PROVE  Custody'
BY PinKeeps, DownloadKeeps, MaterializeKeeps, VerifySourceKeeps, StartBrokerKeeps,
   AwaitBrokerKeeps, RehearseKeeps, ConsumeKeeps, TryKeeps, RebuildKeeps, AttestKeeps,
   SealKeeps, CheckSealKeeps, UnveilKeeps, VerifyTruthKeeps, GradeKeeps, ReturnKeeps
DEF Step

(* Custody is about the state alone. *)
LEMMA StandingStill ==
  ASSUME Custody, UNCHANGED vars
  PROVE  Custody'
<1>1. Typed
  BY TypesHold DEF Custody
<1>2. UNCHANGED <<events, main, release, job, runner, record>>
  BY DEF vars, registry
<1>3. Grows
  BY <1>1, <1>2, SameRecordsGrow
<1>4. main' \in Nat /\ release' \in [Ids -> Releases] /\ UNCHANGED <<job, runner, record>>
  BY <1>1, <1>2 DEF Typed
<1>5. QED
  BY <1>3, <1>4, NobodyMoves

(* Every step keeps Custody. *)
LEMMA CustodyNext ==
  ASSUME Custody, [Next]_vars
  PROVE  Custody'
<1>1. CASE \E i \in Inputs : Stage(i)
  BY <1>1, StageKeeps
<1>2. CASE \E q \in Ids : Unstage(q)
  BY <1>2, UnstageKeeps
<1>3. CASE \E r \in Runs : Dispatch(r) \/ Rerun(r) \/ Start(r)
  BY <1>3, DispatchKeeps, RerunKeeps, StartKeeps
<1>4. CASE \E r \in Runs : BrokerReports(r) \/ Step(r)
  BY <1>4, BrokerReportsKeeps, StepKeepsCustody
<1>5. CASE \E r \in Runs : Interrupt(r)
  BY <1>5, FailKeeps DEF Interrupt
<1>6. CASE OtherAppend \/ MergeCode
  BY <1>6, OtherAppendKeeps, MergeCodeKeeps
<1>7. CASE UNCHANGED vars
  BY <1>7, StandingStill
<1>8. QED
  BY <1>1, <1>2, <1>3, <1>4, <1>5, <1>6, <1>7 DEF Next

(* What each run has on its runner and on record, and to which attempt      *)
(* every deed, every bundle and every official seal belongs, is kept by     *)
(* every step of the evaluator and its environment.                        *)
THEOREM EvaluationsKept == Spec => []Custody
<1>1. Init => Custody
  BY CustodyInit
<1>2. Custody /\ [Next]_vars => Custody'
  BY CustodyNext
<1>3. QED
  BY <1>1, <1>2, PTL DEF Spec

(* Jobs, runners and releases hold what they should, and the concurrency    *)
(* group lets one job of a request run.                                    *)
THEOREM EvaluatorTypeCorrect == Spec => []TypeOK
<1>1. Custody => TypeOK
  BY DEF Custody
<1>2. QED
  BY <1>1, EvaluationsKept, PTL

(* Truth is on a runner only behind the execution seal of this attempt's    *)
(* own consume event, over the index this attempt attested.                *)
THEOREM TruthStaysBehindSeal == Spec => []TruthBehindSeal
<1>1. ASSUME Custody PROVE TruthBehindSeal
  <2> SUFFICES ASSUME NEW r \in Runs, job[r].status = "running",
                      TruthFiles \cap disk[r] # {}, job[r].step \notin {"verify"}
               PROVE  \E x \in EventsOf(events, "execution-seal"), a \in attested :
                        /\ events[x].payload.consumeEvent = job[r].consume
                        /\ a = Attestation(r)
                        /\ events[x].payload.executionCount = a.executions
                        /\ events[x].payload.productCodeTip = a.productTip
    BY DEF TruthBehindSeal
  <2>1. /\ DiskFits(r, job[r].step, disk[r], broker[r])
        /\ RecordFits(r, job[r].step, disk[r]) /\ job[r] \in Jobs
    BY <1>1, Running
  <2>2. job[r].step \notin {"pin", "download", "materialize"}
    BY <2>1 DEF DiskFits, TruthFiles, Bundles
  <2>3. job[r].step \in Verified
    BY <2>1, <2>2
    DEF Jobs, Verified, Rehearsed, Tried, Indexed, Rebuilt, Attested, Sealed, Checked, Unveiled
  <2>4. job[r].step \in Unveiled
    BY <2>1, <2>3 DEF DiskFits
  <2>5. SealedBy(r) /\ Attestation(r) \in attested
    BY <2>1, <2>4 DEF DiskFits, RecordFits, Attested, Sealed, Checked
  <2>6. /\ Attestation(r).executions = job[r].executions
        /\ Attestation(r).productTip = job[r].input.productTip
    BY DEF Attestation
  <2>7. QED
    BY <2>5, <2>6 DEF SealedBy
<1>2. QED
  BY <1>1, EvaluationsKept, PTL

(* The cases of a campaign are tried by one attempt, and what is sealed and *)
(* unveiled of the campaign afterwards is that attempt's.                  *)
THEOREM CampaignsTriedOnce == Spec => []CampaignTriedOnce
<1>1. Custody => CampaignTriedOnce
  BY DEF Custody
<1>2. QED
  BY <1>1, EvaluationsKept, PTL

(* Returned evidence holds neither source nor truth, but everything a third *)
(* party needs, of a sealed campaign.                                      *)
THEOREM EvidenceIsClean == Spec => []EvidenceWithoutPayloads
<1>1. Custody => EvidenceWithoutPayloads
  BY DEF Custody
<1>2. QED
  BY <1>1, EvaluationsKept, PTL

-----------------------------------------------------------------------------
(* The evaluator implements the abstract evaluation. *)
LEMMA PromiseInit == Init => Promise!Init
<1> SUFFICES ASSUME Init PROVE Promise!Init
  OBVIOUS
<1>1. ASSUME NEW type \in {"consume", "execution-seal"}, NEW u \in Units
      PROVE  EventsOfCampaign(events, type, u.corpus, u.campaign) = {}
  <2>1. u.campaign \in Official
    BY DEF Units
  <2>2. QED
    BY <2>1, OfficialAssumption DEF Init, EventsOfCampaign, EventsOf
<1>2. UnitsOf("consume") = {} /\ UnitsOf("execution-seal") = {}
  BY <1>1 DEF UnitsOf
<1>3. DoneTo("unveiled") = {} /\ {b.of : b \in returned} = {}
  BY DEF Init, DoneTo
<1>4. QED
  BY <1>2, <1>3 DEF Promise!Init

(* The units on record after an append. *)
LEMMA UnitsAfterAppend ==
  ASSUME Typed, NEW e \in Event, events' = Append(events, e),
         NEW type, NEW u, u = [corpus |-> e.corpusId, campaign |-> e.payload.campaign]
  PROVE  UnitsOf(type)' = IF e.eventType = type /\ u \in Units
                          THEN UnitsOf(type) \cup {u} ELSE UnitsOf(type)
<1>1. /\ \A n \in DOMAIN events : events'[n] = events[n]
      /\ DOMAIN events \subseteq DOMAIN events'
      /\ Len(events) + 1 \in DOMAIN events' /\ events'[Len(events) + 1] = e
      /\ \A x \in EventsOf(events', type) \ EventsOf(events, type) :
           x = Len(events) + 1 /\ e.eventType = type
  BY AppendExtends
<1>2. ASSUME NEW v \in Units
      PROVE  EventsOfCampaign(events', type, v.corpus, v.campaign) # {} <=>
               \/ EventsOfCampaign(events, type, v.corpus, v.campaign) # {}
               \/ e.eventType = type /\ v = u
  <2>1. v = [corpus |-> v.corpus, campaign |-> v.campaign]
    BY DEF Units
  <2>2. v = u <=> e.corpusId = v.corpus /\ e.payload.campaign = v.campaign
    BY <2>1
  <2>3. ASSUME EventsOfCampaign(events, type, v.corpus, v.campaign) # {}
        PROVE  EventsOfCampaign(events', type, v.corpus, v.campaign) # {}
    BY <1>1, <2>3 DEF EventsOfCampaign, EventsOf
  <2>4. ASSUME e.eventType = type, v = u
        PROVE  EventsOfCampaign(events', type, v.corpus, v.campaign) # {}
    BY <1>1, <2>2, <2>4 DEF EventsOfCampaign, EventsOf
  <2>5. ASSUME EventsOfCampaign(events', type, v.corpus, v.campaign) # {},
               EventsOfCampaign(events, type, v.corpus, v.campaign) = {}
        PROVE  e.eventType = type /\ v = u
    <3>1. PICK x \in EventsOf(events', type) :
            events'[x].corpusId = v.corpus /\ events'[x].payload.campaign = v.campaign
      BY <2>5 DEF EventsOfCampaign
    <3>2. x \notin EventsOf(events, type)
      BY <1>1, <2>5, <3>1 DEF EventsOfCampaign, EventsOf
    <3>3. QED
      BY <1>1, <2>2, <3>1, <3>2
  <2>6. QED
    BY <2>3, <2>4, <2>5
<1>3. QED
  BY <1>2 DEF UnitsOf

(* What moves neither registry, deeds nor bundles, the promise does not see. *)
LEMMA PromiseStutters ==
  ASSUME UNCHANGED <<events, history, returned>>
  PROVE  UNCHANGED Promise!vars
BY DEF Promise!vars, UnitsOf, DoneTo

(* An append of anybody consumes a unit, seals a consumed one, or is of no  *)
(* official campaign.                                                      *)
LEMMA AppendPromised ==
  ASSUME Typed, NEW request \in Request, AppendOf(request),
         DoneTo("unveiled")' = DoneTo("unveiled"), returned' = returned
  PROVE  [Promise!Next]_Promise!vars
<1>1. PICK e \in Event :
        EventOk(events, e) /\ events' = Append(events, e)
  BY AppendRecords
<1>2. PICK u : u = [corpus |-> e.corpusId, campaign |-> e.payload.campaign]
  OBVIOUS
<1>3. /\ UnitsOf("consume")' = IF e.eventType = "consume" /\ u \in Units
                               THEN UnitsOf("consume") \cup {u} ELSE UnitsOf("consume")
      /\ UnitsOf("execution-seal")' = IF e.eventType = "execution-seal" /\ u \in Units
                                      THEN UnitsOf("execution-seal") \cup {u}
                                      ELSE UnitsOf("execution-seal")
  BY <1>1, <1>2, UnitsAfterAppend
<1>4. {b.of : b \in returned}' = {b.of : b \in returned}
  OBVIOUS
<1>5. u.corpus = e.corpusId /\ u.campaign = e.payload.campaign
  BY <1>2
<1>6. CASE e.eventType = "consume" /\ u \in Units
  <2>1. u \notin UnitsOf("consume")
    BY <1>1, <1>5, <1>6 DEF EventOk, TypeSpecificOk, ConsumeOk, UnitsOf
  <2>2. Promise!Consume(u)
    BY <1>3, <1>4, <1>6, <2>1 DEF Promise!Consume
  <2>3. QED
    BY <1>6, <2>2 DEF Promise!Next
<1>7. CASE e.eventType = "execution-seal" /\ u \in Units
  <2>1. u \notin UnitsOf("execution-seal") /\ u \in UnitsOf("consume")
    BY <1>1, <1>5, <1>7 DEF EventOk, TypeSpecificOk, ExecutionSealOk, UnitsOf
  <2>2. Promise!Seal(u)
    BY <1>3, <1>4, <1>7, <2>1 DEF Promise!Seal
  <2>3. QED
    BY <1>7, <2>2 DEF Promise!Next
<1>8. CASE ~(e.eventType \in {"consume", "execution-seal"} /\ u \in Units)
  BY <1>3, <1>4, <1>8 DEF Promise!vars
<1>9. QED
  BY <1>6, <1>7, <1>8

(* A consume is the first of the promised steps, or changes nothing. *)
LEMMA ConsumePromised ==
  ASSUME Custody, NEW r \in Runs, Consume(r)
  PROVE  [Promise!Next]_Promise!vars
<1>1. job[r].status = "running"
  BY DEF Consume, At
<1>2. Typed /\ InputOk(job[r].input)
  BY <1>1, Running
<1>3. ConsumeRequest(r) \in Request
  BY <1>2, ConsumeIsRequest
<1>4. CASE Fail(r)
  BY <1>4, PromiseStutters DEF Fail, registry, record
<1>5. CASE AppendOf(ConsumeRequest(r)) /\ UNCHANGED record
  <2>1. DoneTo("unveiled")' = DoneTo("unveiled") /\ returned' = returned
    BY <1>5 DEF record, DoneTo
  <2>2. QED
    BY <1>2, <1>3, <1>5, <2>1, AppendPromised
<1>6. CASE /\ AppendOf(ConsumeRequest(r)) /\ returned' = returned
           /\ history' = history \cup {Deed(r, "tried")}
  <2>1. Deed(r, "tried").deed # "unveiled"
    BY DEF Deed
  <2>2. DoneTo("unveiled")' = DoneTo("unveiled")
    BY <1>6, <2>1 DEF DoneTo
  <2>3. QED
    BY <1>2, <1>3, <1>6, <2>2, AppendPromised
<1>7. QED
  BY <1>4, <1>5, <1>6 DEF Consume

(* An execution seal is the second one, or changes nothing. *)
LEMMA SealPromised ==
  ASSUME Custody, NEW r \in Runs, Seal(r)
  PROVE  [Promise!Next]_Promise!vars
<1>1. job[r].status = "running"
  BY DEF Seal, At
<1>2. Typed /\ job[r] \in Jobs /\ InputOk(job[r].input)
  BY <1>1, Running
<1>3. SealRequest(r) \in Request
  BY <1>2, SealIsRequest
<1>4. CASE UNCHANGED <<registry, record>>
  BY <1>4, PromiseStutters DEF registry, record
<1>5. CASE AppendOf(SealRequest(r)) /\ UNCHANGED record
  <2>1. DoneTo("unveiled")' = DoneTo("unveiled") /\ returned' = returned
    BY <1>5 DEF record, DoneTo
  <2>2. QED
    BY <1>2, <1>3, <1>5, <2>1, AppendPromised
<1>6. QED
  BY <1>4, <1>5 DEF Seal, Proceed, Fail

(* The deed of a campaign that an attempt has tried is that attempt's. *)
LEMMA OneAttempt ==
  ASSUME Custody, NEW r \in Runs, Deed(r, "tried") \in history,
         NEW h \in history, h.of = Campaign(r)
  PROVE  h.run = r /\ h.attempt = job[r].attempt
<1>1. /\ Deed(r, "tried").of = Campaign(r) /\ Deed(r, "tried").run = r
      /\ Deed(r, "tried").attempt = job[r].attempt
  BY DEF Deed
<1>2. QED
  BY <1>1 DEF Custody, CampaignTriedOnce

(* Opening truth is the third one, or changes nothing. *)
LEMMA UnveilPromised ==
  ASSUME Custody, NEW r \in Runs, Unveil(r)
  PROVE  [Promise!Next]_Promise!vars
<1>1. job[r].status = "running" /\ job[r].step = "unveil"
  BY DEF Unveil, At
<1>2. /\ DiskFits(r, "unveil", disk[r], broker[r])
      /\ RecordFits(r, "unveil", disk[r]) /\ InputOk(job[r].input)
  BY <1>1, Running
<1>3. CASE Fail(r)
  BY <1>3, PromiseStutters DEF Fail, registry, record
<1>4. CASE /\ history' = history \cup {Deed(r, "unveiled")}
           /\ UNCHANGED <<events, returned>>
  <2>1. PICK u : u = Campaign(r)
    OBVIOUS
  <2>2. /\ SealedBy(r) /\ Deed(r, "tried") \in history /\ job[r].input.campaign \in Official
    BY <1>2 DEF DiskFits, RecordFits, Verified, Rehearsed, Tried, Indexed, Rebuilt, Attested,
                Sealed, Checked, Unveiled
  <2>3. u \in Units
    BY <1>2, <2>1, <2>2, CampaignIsUnit
  <2>4. u \in UnitsOf("execution-seal")
    BY <2>1, <2>2, <2>3 DEF SealedBy, EventsOfCampaign, Campaign, UnitsOf
  <2>5. u \notin DoneTo("unveiled")
    <3>1. SUFFICES ASSUME NEW h \in history, h.deed = "unveiled", h.of = u
                   PROVE  FALSE
      BY DEF DoneTo
    <3>2. h.run = r /\ h.attempt = job[r].attempt
      BY <2>1, <2>2, <3>1, OneAttempt
    <3>3. DeedTrue(h)
      BY <3>1 DEF Custody
    <3>4. QED
      BY <1>1, <3>1, <3>2, <3>3 DEF DeedTrue, Unveiled
  <2>6. Deed(r, "unveiled").deed = "unveiled" /\ Deed(r, "unveiled").of = u
    BY <2>1 DEF Deed
  <2>7. DoneTo("unveiled")' = DoneTo("unveiled") \cup {u}
    BY <1>4, <2>6 DEF DoneTo
  <2>8. /\ UNCHANGED <<UnitsOf("consume"), UnitsOf("execution-seal")>>
        /\ {b.of : b \in returned}' = {b.of : b \in returned}
    BY <1>4 DEF UnitsOf
  <2>9. Promise!Unveil(u)
    BY <2>4, <2>5, <2>7, <2>8 DEF Promise!Unveil
  <2>10. QED
    BY <2>3, <2>9 DEF Promise!Next
<1>5. QED
  BY <1>3, <1>4 DEF Unveil, registry

(* Returning the evidence is the last one, or changes nothing. *)
LEMMA ReturnPromised ==
  ASSUME Custody, NEW r \in Runs, Return(r)
  PROVE  [Promise!Next]_Promise!vars
<1>1. job[r].status = "running" /\ job[r].step = "return"
  BY DEF Return, At
<1>2. /\ DiskFits(r, "return", disk[r], broker[r])
      /\ RecordFits(r, "return", disk[r]) /\ InputOk(job[r].input)
  BY <1>1, Running
<1>3. PICK u : u = Campaign(r)
  OBVIOUS
<1>4. /\ Deed(r, "tried") \in history /\ Deed(r, "unveiled") \in history
      /\ job[r].input.campaign \in Official
  BY <1>2 DEF RecordFits, Verified, Rehearsed, Tried, Indexed, Rebuilt, Attested,
              Sealed, Checked, Unveiled
<1>5. u \in Units
  BY <1>2, <1>3, <1>4, CampaignIsUnit
<1>6. u \in DoneTo("unveiled")
  <2>1. Deed(r, "unveiled").deed = "unveiled" /\ Deed(r, "unveiled").of = u
    BY <1>3 DEF Deed
  <2>2. QED
    BY <1>4, <2>1 DEF DoneTo
<1>7. u \notin {b.of : b \in returned}
  <2>1. SUFFICES ASSUME NEW b \in returned, b.of = u
                 PROVE  FALSE
    OBVIOUS
  <2>2. BundleTrue(b)
    BY <2>1 DEF Custody
  <2>3. PICK h \in history :
          h = [deed |-> "unveiled", run |-> b.run, attempt |-> b.attempt, of |-> b.of]
    BY <2>2 DEF BundleTrue
  <2>4. h.of = Campaign(r) /\ h.run = b.run /\ h.attempt = b.attempt
    BY <1>3, <2>1, <2>3
  <2>5. h.run = r /\ h.attempt = job[r].attempt
    BY <1>4, <2>4, OneAttempt
  <2>6. QED
    BY <1>1, <2>2, <2>4, <2>5 DEF BundleTrue, Ended
<1>8. {b.of : b \in returned}' = {b.of : b \in returned} \cup {u}
  <2>1. PICK b : b = [run |-> r, attempt |-> job[r].attempt, of |-> Campaign(r),
                      files |-> Returnable(r)]
    OBVIOUS
  <2>2. returned' = returned \cup {b} /\ b.of = u
    BY <1>3, <2>1 DEF Return
  <2>3. QED
    BY <2>2
<1>9. UNCHANGED <<UnitsOf("consume"), UnitsOf("execution-seal"), DoneTo("unveiled")>>
  BY DEF Return, registry, UnitsOf, DoneTo
<1>10. Promise!Return(u)
  BY <1>6, <1>7, <1>8, <1>9 DEF Promise!Return
<1>11. QED
  BY <1>5, <1>10 DEF Promise!Next

(* What others append breaks no promise. *)
LEMMA OtherAppendPromised ==
  ASSUME Typed, OtherAppend
  PROVE  [Promise!Next]_Promise!vars
<1>1. PICK request \in Requests : AppendOf(request)
  BY DEF OtherAppend
<1>2. request \in Request
  BY EvaluatorAssumption
<1>3. DoneTo("unveiled")' = DoneTo("unveiled") /\ returned' = returned
  BY DEF OtherAppend, record, DoneTo
<1>4. QED
  BY <1>1, <1>2, <1>3, AppendPromised

(* The other steps of a job change neither the registry nor the records     *)
(* that the abstract evaluation knows.                                     *)
LEMMA QuietStep ==
  ASSUME NEW r \in Runs, Step(r),
         ~Consume(r), ~Seal(r), ~Unveil(r), ~Return(r)
  PROVE  UNCHANGED <<events, history, returned>>
<1>1. Pin(r) \/ Download(r) \/ Materialize(r) \/ VerifySource(r) \/ Rehearse(r) \/ Rebuild(r)
        \/ CheckSeal(r) \/ VerifyTruth(r) \/ Grade(r)
      => UNCHANGED <<events, history, returned>>
  BY DEF Pin, Download, Materialize, VerifySource, Rehearse, Rebuild, CheckSeal, VerifyTruth,
         Grade, Proceed, Fail, registry, record
<1>2. StartBroker(r) \/ AwaitBroker(r) \/ Try(r) \/ Attest(r)
      => UNCHANGED <<events, history, returned>>
  BY DEF StartBroker, AwaitBroker, Try, Attest, Proceed, Fail, registry, record
<1>3. QED
  BY <1>1, <1>2 DEF Step

(* Every step of the evaluator is a promised step or changes nothing. *)
LEMMA NextPromised ==
  ASSUME Custody, [Next]_vars
  PROVE  [Promise!Next]_Promise!vars
<1>1. CASE \E r \in Runs : Consume(r) \/ Seal(r) \/ Unveil(r) \/ Return(r)
  BY <1>1, ConsumePromised, SealPromised, UnveilPromised, ReturnPromised
<1>2. CASE \E r \in Runs : Step(r) /\ ~(Consume(r) \/ Seal(r) \/ Unveil(r) \/ Return(r))
  BY <1>2, QuietStep, PromiseStutters
<1>3. CASE OtherAppend
  BY <1>3, TypesHold, OtherAppendPromised DEF Custody
<1>4. CASE \/ \E i \in Inputs : Stage(i)
           \/ \E q \in Ids : Unstage(q)
           \/ \E r \in Runs : Dispatch(r) \/ Rerun(r) \/ Start(r) \/ BrokerReports(r)
                                \/ Interrupt(r)
           \/ MergeCode
  <2>1. UNCHANGED <<events, history, returned>>
    BY <1>4 DEF Stage, Unstage, Dispatch, Rerun, Start, BrokerReports, Interrupt, Fail,
                MergeCode, registry, record
  <2>2. QED
    BY <2>1, PromiseStutters
<1>5. CASE UNCHANGED vars
  BY <1>5, PromiseStutters DEF vars, registry, record
<1>6. QED
  BY <1>1, <1>2, <1>3, <1>4, <1>5 DEF Next

(* However jobs are lost, repeated, duplicated and raced by other callers,  *)
(* each campaign of a corpus is consumed, sealed, unveiled and returned in  *)
(* this order, each once.                                                  *)
THEOREM EvaluatorImplementsEvaluation == Spec => ImplementsEvaluation
<1>1. Init => Promise!Init
  BY PromiseInit
<1>2. Custody /\ [Next]_vars => [Promise!Next]_Promise!vars
  BY NextPromised
<1>3. QED
  BY <1>1, <1>2, EvaluationsKept, PTL DEF Spec, ImplementsEvaluation, Promise!Spec

-----------------------------------------------------------------------------
(* What the registry's own rules add to an evaluation.  Jobs and other      *)
(* callers extend the history by accepted events only.                      *)
LEMMA SubmissionKeepsValid ==
  ASSUME Typed, RegistryValid(events), NEW request \in Request, AppendOf(request)
  PROVE  RegistryValid(events')
<1>1. PICK e \in Event : EventOk(events, e) /\ events' = Append(events, e)
  BY AppendRecords
<1>2. QED
  BY <1>1, AppendKeepsValid DEF Typed

(* Only a consume, a seal and another caller touch the history. *)
LEMMA ValidityNext ==
  ASSUME Custody, RegistryValid(events), [Next]_vars
  PROVE  RegistryValid(events')
<1>1. Typed
  BY TypesHold DEF Custody
<1>2. CASE \E r \in Runs : Consume(r)
  <2>1. PICK r \in Runs : Consume(r)
    BY <1>2
  <2>2. job[r].status = "running"
    BY <2>1 DEF Consume, At
  <2>3. ConsumeRequest(r) \in Request
    BY <2>2, Running, ConsumeIsRequest
  <2>4. AppendOf(ConsumeRequest(r)) \/ UNCHANGED events
    BY <2>1 DEF Consume, Fail, registry
  <2>5. QED
    BY <1>1, <2>3, <2>4, SubmissionKeepsValid
<1>3. CASE \E r \in Runs : Seal(r)
  <2>1. PICK r \in Runs : Seal(r)
    BY <1>3
  <2>2. job[r].status = "running"
    BY <2>1 DEF Seal, At
  <2>3. SealRequest(r) \in Request
    BY <2>2, Running, SealIsRequest
  <2>4. AppendOf(SealRequest(r)) \/ UNCHANGED events
    BY <2>1 DEF Seal, Proceed, Fail, registry
  <2>5. QED
    BY <1>1, <2>3, <2>4, SubmissionKeepsValid
<1>4. CASE OtherAppend
  <2>1. PICK request \in Requests : AppendOf(request)
    BY <1>4 DEF OtherAppend
  <2>2. request \in Request
    BY EvaluatorAssumption
  <2>3. QED
    BY <1>1, <2>1, <2>2, SubmissionKeepsValid
<1>5. ASSUME NEW r \in Runs, Step(r), ~Consume(r), ~Seal(r)
      PROVE  UNCHANGED events
  <2>1. CASE Unveil(r)
    BY <2>1 DEF Unveil, Fail, registry
  <2>2. CASE Return(r)
    BY <2>2 DEF Return, registry
  <2>3. QED
    BY <1>5, <2>1, <2>2, QuietStep
<1>6. ASSUME \/ \E i \in Inputs : Stage(i)
             \/ \E q \in Ids : Unstage(q)
             \/ \E r \in Runs : Dispatch(r) \/ Rerun(r) \/ Start(r) \/ BrokerReports(r)
                                  \/ Interrupt(r)
             \/ MergeCode
             \/ UNCHANGED vars
      PROVE  UNCHANGED events
  BY <1>6 DEF Stage, Unstage, Dispatch, Rerun, Start, BrokerReports, Interrupt, Fail,
              MergeCode, registry, vars
<1>7. QED
  BY <1>2, <1>3, <1>4, <1>5, <1>6 DEF Next

(* The registry passes its own validator (validateCorpusRegistry). *)
HistoryValid == RegistryValid(events)

(* Evaluations leave the registry valid, whichever of their appends are     *)
(* committed without their job learning of it.                              *)
LEMMA ValidityKept == Spec => []HistoryValid
<1>1. Init => HistoryValid
  BY EvaluatorAssumption DEF Init, HistoryValid
<1>2. Custody /\ HistoryValid /\ [Next]_vars => HistoryValid'
  BY ValidityNext DEF HistoryValid
<1>3. QED
  BY <1>1, <1>2, EvaluationsKept, PTL DEF Spec

(* However evaluations are lost, repeated and raced, the history they run   *)
(* on keeps every promise of the registry (CustodyHolds).                   *)
THEOREM EvaluatedUnderCustody == Spec => []CustodyHolds(events)
<1>1. Custody /\ HistoryValid => CustodyHolds(events)
  BY TypesHold, ValidHistoriesHold DEF Custody, Typed, HistoryValid
<1>2. QED
  BY <1>1, EvaluationsKept, ValidityKept, PTL

(* The consume events of the campaign a deed was done to. *)
Consumes(h) == EventsOfCampaign(events, "consume", h.of.corpus, h.of.campaign)

(* Attempts that tried one final case are the same attempt. *)
FinalCasesTriedOnce ==
  \A h, g \in history :
    \A k \in FinalConsumes(events) \cap Consumes(h), l \in FinalConsumes(events) \cap Consumes(g) :
      CasesIn(events, events[k].payload.caseEvents)
        \cap CasesIn(events, events[l].payload.caseEvents) # {}
      => <<h.run, h.attempt>> = <<g.run, g.attempt>>

(* A final case is tried by one attempt of one run, through whatever        *)
(* requests, corpora and re-runs it is asked for: two campaigns whose       *)
(* consume events share a case are one, and one attempt tries it.           *)
THEOREM FinalCasesStayTriedOnce == Spec => []FinalCasesTriedOnce
<1>1. ASSUME Custody, RegistryValid(events), NEW h \in history, NEW g \in history,
             NEW k \in FinalConsumes(events) \cap Consumes(h),
             NEW l \in FinalConsumes(events) \cap Consumes(g),
             CasesIn(events, events[k].payload.caseEvents)
               \cap CasesIn(events, events[l].payload.caseEvents) # {}
      PROVE  <<h.run, h.attempt>> = <<g.run, g.attempt>>
  <2>1. events \in Seq(Event)
    BY <1>1, TypesHold DEF Custody, Typed
  <2>2. k \in Nat /\ l \in Nat
    BY <2>1, LenProperties DEF FinalConsumes, EventsOf
  <2>3. ~(k < l) /\ ~(l < k)
    BY <1>1, <2>1, FinalCohortsDisjoint
  <2>4. k = l
    BY <2>2, <2>3
  <2>5. h.of.corpus = g.of.corpus /\ h.of.campaign = g.of.campaign
    BY <2>4 DEF Consumes, EventsOfCampaign
  <2>6. h.of \in Units /\ g.of \in Units
    BY <1>1 DEF Custody, DeedTrue
  <2>7. h.of = g.of
    BY <2>5, <2>6 DEF Units
  <2>8. QED
    BY <1>1, <2>7 DEF Custody, CampaignTriedOnce
<1>2. Custody /\ HistoryValid => FinalCasesTriedOnce
  BY <1>1 DEF FinalCasesTriedOnce, HistoryValid
<1>3. QED
  BY <1>2, EvaluationsKept, ValidityKept, PTL

(* Behind each opened truth the registry holds an execution seal, and       *)
(* before its consume event the truth seals of all the cases it covers.     *)
UnveiledOnRecord ==
  \A u \in DoneTo("unveiled") :
    \E x \in EventsOfCampaign(events, "execution-seal", u.corpus, u.campaign) :
      LET k == ConsumeOf(events, x) IN
      /\ k \in EventsOfCampaign(events, "consume", u.corpus, u.campaign) /\ k < x
      /\ \A c \in CasesExecuted(events, x) :
           /\ EventsOfCase(events, "truth-seal", c) # {}
           /\ \A t \in EventsOfCase(events, "truth-seal", c) : t < k

(* The abstract evaluation opens only what is sealed. *)
LEMMA UnveiledSealed == Spec => [](DoneTo("unveiled") \subseteq UnitsOf("execution-seal"))
<1>1. Init => DoneTo("unveiled") \subseteq UnitsOf("execution-seal")
  BY DEF Init, DoneTo
<1>2. ASSUME DoneTo("unveiled") \subseteq UnitsOf("execution-seal"),
             [Promise!Next]_Promise!vars
      PROVE  (DoneTo("unveiled") \subseteq UnitsOf("execution-seal"))'
  <2> DEFINE sealed   == UnitsOf("execution-seal")
             unveiled == DoneTo("unveiled")
  <2>1. CASE UNCHANGED <<sealed, unveiled>>
    BY <1>2, <2>1
  <2>2. ASSUME NEW u \in Units, Promise!Seal(u)
        PROVE  sealed' = sealed \cup {u} /\ unveiled' = unveiled
    BY <2>2 DEF Promise!Seal
  <2>3. ASSUME NEW u \in Units, Promise!Unveil(u)
        PROVE  sealed' = sealed /\ unveiled' = unveiled \cup {u} /\ u \in sealed
    BY <2>3 DEF Promise!Unveil
  <2>4. ASSUME NEW u \in Units, Promise!Consume(u) \/ Promise!Return(u)
        PROVE  UNCHANGED <<sealed, unveiled>>
    BY <2>4 DEF Promise!Consume, Promise!Return
  <2> HIDE DEF sealed, unveiled
  <2>5. unveiled' \subseteq sealed'
    <3>1. unveiled \subseteq sealed
      BY <1>2 DEF sealed, unveiled
    <3>2. UNCHANGED Promise!vars => UNCHANGED <<sealed, unveiled>>
      BY DEF Promise!vars, sealed, unveiled
    <3>3. QED
      BY <1>2, <2>2, <2>3, <2>4, <3>1, <3>2 DEF Promise!Next
  <2>6. QED
    BY <2>5 DEF sealed, unveiled
<1>3. Custody /\ DoneTo("unveiled") \subseteq UnitsOf("execution-seal") /\ [Next]_vars
        => (DoneTo("unveiled") \subseteq UnitsOf("execution-seal"))'
  BY <1>2, NextPromised
<1>4. QED
  BY <1>1, <1>3, EvaluationsKept, PTL DEF Spec

(* Truth is opened for complete trials only, whoever else appends and      *)
(* seals: the one execution seal of the campaign counts three trials of    *)
(* every consumed case, over the index that the unveiling attempt attested. *)
THEOREM TruthBehindCompleteTrials == Spec => []UnveiledTrialsComplete
<1>1. ASSUME Custody, RegistryValid(events), NEW h \in history, h.deed = "unveiled"
      PROVE  \E x \in EventsOfCampaign(events, "execution-seal", h.of.corpus, h.of.campaign),
                a \in attested :
               /\ EventsOfCampaign(events, "execution-seal", h.of.corpus, h.of.campaign) = {x}
               /\ events[x].payload.executionCount
                    = 3 * Cardinality(events[events[x].payload.consumeEvent].payload.caseEvents)
               /\ a.run = h.run /\ a.attempt = h.attempt /\ a.of = h.of
               /\ a.executions = events[x].payload.executionCount
  <2> DEFINE seals == EventsOfCampaign(events, "execution-seal", h.of.corpus, h.of.campaign)
  <2>1. SealedComplete(h) /\ events \in Seq(Event)
    BY <1>1, TypesHold DEF Custody, DeedTrue, Typed
  <2>2. PICK x \in seals, a \in attested :
          /\ events[x].payload.executionCount
               = 3 * Cardinality(events[events[x].payload.consumeEvent].payload.caseEvents)
          /\ a.run = h.run /\ a.attempt = h.attempt /\ a.of = h.of
          /\ a.executions = events[x].payload.executionCount
    BY <2>1 DEF SealedComplete
  <2>3. \A y, z \in seals : y = z
    BY <1>1, <2>1, CampaignSealedOnce
  <2>4. seals = {x}
    BY <2>2, <2>3
  <2>5. QED
    BY <2>2, <2>4
<1>2. Custody /\ HistoryValid => UnveiledTrialsComplete
  BY <1>1 DEF UnveiledTrialsComplete, HistoryValid
<1>3. QED
  BY <1>2, EvaluationsKept, ValidityKept, PTL

(* Truth the evaluator opens was sealed in the registry before the product  *)
(* could run on its case, and what the product did was sealed before truth  *)
(* was opened, by the evaluator's steps and the registry's rules together.  *)
THEOREM UnveilingsOnRecord == Spec => []UnveiledOnRecord
<1>1. ASSUME Custody, RegistryValid(events), NEW u \in UnitsOf("execution-seal")
      PROVE  \E x \in EventsOfCampaign(events, "execution-seal", u.corpus, u.campaign) :
               LET k == ConsumeOf(events, x) IN
               /\ k \in EventsOfCampaign(events, "consume", u.corpus, u.campaign) /\ k < x
               /\ \A c \in CasesExecuted(events, x) :
                    /\ EventsOfCase(events, "truth-seal", c) # {}
                    /\ \A t \in EventsOfCase(events, "truth-seal", c) : t < k
  <2>1. events \in Seq(Event)
    BY <1>1, TypesHold DEF Custody, Typed
  <2>2. PICK x : x \in EventsOfCampaign(events, "execution-seal", u.corpus, u.campaign)
    BY DEF UnitsOf
  <2> DEFINE k == ConsumeOf(events, x)
  <2>3. /\ x \in EventsOf(events, "execution-seal")
        /\ events[x].corpusId = u.corpus /\ events[x].payload.campaign = u.campaign
    BY <2>2 DEF EventsOfCampaign
  <2>4. /\ k \in EventsOf(events, "consume") /\ k < x
        /\ events[k].corpusId = u.corpus /\ events[k].payload.campaign = u.campaign
    BY <1>1, <2>1, <2>3, SealedAfterConsume
  <2>5. TruthSealedFirst(events)
    BY <1>1, <2>1, TruthBeforeProduct
  <2>6. \A c \in CasesExecuted(events, x) :
          /\ EventsOfCase(events, "truth-seal", c) # {}
          /\ \A t \in EventsOfCase(events, "truth-seal", c) : t < k
    BY <2>3, <2>5 DEF TruthSealedFirst
  <2> HIDE DEF k
  <2>7. k \in EventsOfCampaign(events, "consume", u.corpus, u.campaign)
    BY <2>4 DEF EventsOfCampaign
  <2>8. QED
    BY <2>2, <2>4, <2>6, <2>7 DEF k
<1>2. Custody /\ HistoryValid /\ DoneTo("unveiled") \subseteq UnitsOf("execution-seal")
        => UnveiledOnRecord
  BY <1>1 DEF UnveiledOnRecord, HistoryValid
<1>3. QED
  BY <1>2, EvaluationsKept, ValidityKept, UnveiledSealed, PTL

===============================================================================
