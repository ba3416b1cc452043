------------------------- MODULE RefusalReviewProofs -------------------------
(***************************************************************************)
(* What holds of the refusal reviewer for every number of runs, requests,  *)
(* readings, calls and cases.  One inductive invariant, Reviewed, says     *)
(* what jobs, artifacts and sealed reviews owe to what two models said;    *)
(* the theorems follow from it.  What a sealed review says of a property   *)
(* holds as far as readings are read as they are meant.                    *)
(***************************************************************************)
EXTENDS RefusalReview, CorpusHistoryProofs

(* Aliases are made of fields of an identity. *)
LEMMA AliasFieldsKnown ==
  \A kind \in DOMAIN AliasFields :
    \A n \in DOMAIN AliasFields[kind] : AliasFields[kind][n] \in IdentityKinds
BY DEF AliasFields, AliasKinds, IdentityKinds

(* What is known of two readings before any job asks. *)
LEMMA AgreementKnown ==
  \A l, m \in Readings :
    /\ Agreement[l][m].reconciled = Reconcilable(l.text, m.text)
    /\ Agreement[l][m].aliases = Aliases(AgreedIdentity(l.text, m.text))
BY DEF Agreement

-----------------------------------------------------------------------------
(* The inductive invariant.                                                *)

Idle      == [status |-> "idle"]
LateSteps == {"index", "attest", "upload", "conclude"}
Steps     == {"pin", "source", "ask"} \cup LateSteps

Results ==
  [candidate : Candidates,
   heard : Seq(Heard),
   aliases : {Agreement[l][m].aliases : l \in Readings, m \in Readings}]

(* A result is what two different models agreed on. *)
Reconciled(x) ==
  /\ x \in Results
  /\ Len(x.heard) = 2 /\ Distinct(x.heard)
  /\ AgreementOf(x.heard).reconciled
  /\ x.aliases = AgreementOf(x.heard).aliases

Jobs ==
  [status : Ended \cup {"pending", "running"}, step : Steps, calls : 0 .. MaxCalls - 1,
   heard : Seq(Heard), results : Seq(Results), input : Inputs, attempt : 1 .. MaxAttempts,
   sha : Nat, policy : Nat]

(* How far a job has come and what it holds there. *)
JobTrue(rec, tip) ==
  /\ rec \in Jobs
  /\ rec.sha <= tip
  /\ rec.status = "pending" => rec.step = "pin"
  /\ rec.step \in {"pin", "source"} => rec.results = <<>>
  /\ rec.step \notin {"pin", "source"} => Len(rec.input.cases) \in 1 .. MaxCases
  /\ rec.step = "ask" => Len(rec.results) < Len(rec.input.cases)
  /\ rec.step \in LateSteps => Len(rec.results) = Len(rec.input.cases)
  /\ Len(rec.heard) <= 2
  /\ \A k \in DOMAIN rec.results : Reconciled(rec.results[k])

Recorded(log) == log \in Seq(S!Range(log))

Registered == main \in Nat /\ Recorded(events)

JobsTrue ==
  /\ job \in [Runs -> {Idle} \cup Jobs]
  /\ \A r \in Runs : job[r] \in Jobs => JobTrue(job[r], main)

(* An artifact is of a run that was dispatched, of an attempt of it, and   *)
(* for its request.                                                        *)
ArtifactTrue(x) ==
  /\ x.run \in Runs /\ job[x.run] \in Jobs
  /\ x.id = job[x.run].input.id
  /\ x.attempt \in Nat /\ x.attempt <= job[x.run].attempt
  /\ x.results \in Seq(Results)
  /\ \A k \in DOMAIN x.results : Reconciled(x.results[k])

ArtifactsTrue == IsFiniteSet(artifacts) /\ \A x \in artifacts : ArtifactTrue(x)

(* Past its pin a run has the tip of main for its commit. *)
PastPin(rec) == rec.status = "running" /\ rec.step # "pin"

(* What an append knows of a run: the attempt has ended, and the run has   *)
(* published no index but its own up to it.                                *)
Settled(y) ==
  /\ y.run \in Runs /\ job[y.run] \in Jobs
  /\ y.attempt \in Nat /\ y.attempt <= job[y.run].attempt
  /\ y.attempt = job[y.run].attempt => job[y.run].status \in Ended
  /\ Reconciled(y.result)
  /\ \A x \in artifacts : x.run = y.run =>
       /\ y.attempt <= x.attempt
       /\ x.attempt = y.attempt => y.result \in S!Range(x.results)

AppendTrue == append = None \/ Settled(append)

(* A sealed review is in the registry as it was heard.  Main has left its  *)
(* run behind: none but the attempt of the time of the push can be past    *)
(* its pin.                                                                *)
SealTrue(s) ==
  /\ Settled(s)
  /\ s.last \in Nat /\ s.last <= job[s.run].attempt
  /\ job[s.run].sha < main
  /\ PastPin(job[s.run]) => job[s.run].attempt = s.last
  /\ \A x \in artifacts : x.run = s.run => x.attempt <= s.last
  /\ s.event \in DOMAIN events
  /\ events[s.event].eventType = "review-seal"
  /\ events[s.event].payload.aliases = s.result.aliases

SealsApart ==
  \A s, t \in sealed : s.event # t.event => s.result.aliases \cap t.result.aliases = {}

SealsTrue == (\A s \in sealed : SealTrue(s)) /\ SealsApart

Reviewed == Registered /\ JobsTrue /\ ArtifactsTrue /\ AppendTrue /\ SealsTrue

(* The invariant holds when the reviews begin. *)
LEMMA InitReviewed == Init => Reviewed
<1> SUFFICES ASSUME Init PROVE Reviewed
  OBVIOUS
<1>1. events = Genesis /\ main = 1 /\ append = None /\ artifacts = {} /\ sealed = {}
      /\ job = [r \in Runs |-> Idle]
  BY DEF Init, Idle
<1>2. Registered
  <2>1. Genesis \in Seq(Event)
    BY ReviewAssumption
  <2>2. \A n \in 1 .. Len(Genesis) : Genesis[n] \in S!Range(Genesis)
    BY <2>1, LenProperties DEF S!Range
  <2>3. Genesis \in Seq(S!Range(Genesis))
    BY <2>1, <2>2, LenProperties
  <2>4. QED
    BY <1>1, <2>3 DEF Registered, Recorded
<1>3. Idle \notin Jobs
  <2>1. SUFFICES ASSUME Idle \in Jobs PROVE FALSE
    OBVIOUS
  <2>2. Idle.status \in Ended \cup {"pending", "running"}
    BY <2>1 DEF Jobs
  <2>3. QED
    BY <2>2 DEF Idle, Ended
<1>4. JobsTrue
  BY <1>1, <1>3 DEF JobsTrue
<1>5. ArtifactsTrue
  BY <1>1, FS_EmptySet DEF ArtifactsTrue
<1>6. AppendTrue /\ SealsTrue
  BY <1>1 DEF AppendTrue, SealsTrue, SealsApart
<1>7. QED
  BY <1>2, <1>4, <1>5, <1>6 DEF Reviewed

(* What a job may become: its request and commit stay, its attempts go on, *)
(* an attempt that has ended stays so, and none passes its pin but at the  *)
(* tip of main.                                                            *)
Follows(old, new) ==
  /\ new.input = old.input /\ new.sha = old.sha
  /\ old.attempt <= new.attempt
  /\ old.attempt = new.attempt /\ old.status \in Ended => new.status \in Ended
  /\ PastPin(new) => old.sha = main \/ (PastPin(old) /\ new.attempt = old.attempt)

RunsKept ==
  \A r \in Runs : job[r] \in Jobs => job'[r] \in Jobs /\ Follows(job[r], job'[r])

(* Only an attempt that is past its pin publishes. *)
PublishedPastPin ==
  \A x \in artifacts' :
    x \in artifacts \/ (PastPin(job[x.run]) /\ x.attempt = job[x.run].attempt)

(* What an append knows of a run stays true. *)
LEMMA SettledStays ==
  ASSUME RunsKept, PublishedPastPin, NEW y, Settled(y)
  PROVE  Settled(y)'
<1>1. PICK old, new : old = job[y.run] /\ new = job'[y.run]
  OBVIOUS
<1>2. /\ y.run \in Runs /\ old \in Jobs /\ new \in Jobs /\ Follows(old, new)
      /\ y.attempt \in Nat /\ y.attempt <= old.attempt
      /\ y.attempt = old.attempt => old.status \in Ended
      /\ Reconciled(y.result)
  BY <1>1 DEF Settled, RunsKept
<1>3. old.attempt \in Nat /\ new.attempt \in Nat /\ old.attempt <= new.attempt
  BY <1>2, ReviewAssumption DEF Jobs, Follows
<1>4. y.attempt <= new.attempt
  BY <1>2, <1>3
<1>5. ASSUME y.attempt = new.attempt PROVE new.status \in Ended
  <2>1. y.attempt = old.attempt
    BY <1>2, <1>3, <1>5
  <2>2. QED
    BY <1>2, <1>5, <2>1 DEF Follows
<1>6. ASSUME NEW x \in artifacts', x.run = y.run
      PROVE  /\ y.attempt <= x.attempt
             /\ x.attempt = y.attempt => y.result \in S!Range(x.results)
  <2>1. CASE x \in artifacts
    BY <1>6, <2>1 DEF Settled
  <2>2. CASE PastPin(old) /\ x.attempt = old.attempt
    <3>1. old.status \notin Ended
      BY <2>2 DEF PastPin, Ended
    <3>2. QED
      BY <1>2, <1>3, <2>2, <3>1
  <2>3. QED
    BY <1>1, <1>6, <2>1, <2>2 DEF PublishedPastPin
<1>7. QED
  BY <1>1, <1>2, <1>4, <1>5, <1>6 DEF Settled

(* What a step of jobs leaves true of the append, of seals and artifacts. *)
LEMMA KeptStep ==
  ASSUME Reviewed, RunsKept, PublishedPastPin, UNCHANGED <<registry, sealed>>
  PROVE  /\ Registered' /\ AppendTrue' /\ SealsTrue'
         /\ \A x \in artifacts : ArtifactTrue(x)'
<1> /\ UNCHANGED events /\ UNCHANGED main /\ UNCHANGED append /\ UNCHANGED sealed
  BY DEF registry
<1>1. Registered'
  BY DEF Reviewed, Registered
<1>2. AppendTrue'
  <2>1. PICK y : y = append
    OBVIOUS
  <2>2. CASE y = None
    BY <2>1, <2>2 DEF AppendTrue
  <2>3. CASE Settled(y)
    <3>1. Settled(y)'
      BY <2>3, SettledStays
    <3>2. y = append'
      BY <2>1
    <3>3. Settled(append)'
      BY <3>1, <3>2 DEF Settled
    <3>4. QED
      BY <3>3 DEF AppendTrue
  <2>4. QED
    BY <2>1, <2>2, <2>3 DEF Reviewed, AppendTrue
<1>3. ASSUME NEW s \in sealed PROVE SealTrue(s)'
  <2>1. /\ Settled(s) /\ s.last \in Nat /\ s.last <= job[s.run].attempt
        /\ job[s.run].sha < main
        /\ PastPin(job[s.run]) => job[s.run].attempt = s.last
        /\ \A x \in artifacts : x.run = s.run => x.attempt <= s.last
        /\ s.event \in DOMAIN events /\ events[s.event].eventType = "review-seal"
        /\ events[s.event].payload.aliases = s.result.aliases
    BY DEF Reviewed, SealsTrue, SealTrue
  <2>2. Settled(s)'
    BY <2>1, SettledStays
  <2>3. PICK old, new : old = job[s.run] /\ new = job'[s.run]
    OBVIOUS
  <2>4. old \in Jobs /\ new \in Jobs /\ Follows(old, new)
    BY <2>1, <2>3 DEF Settled, RunsKept
  <2>5. /\ old.attempt \in Nat /\ new.attempt \in Nat /\ old.attempt <= new.attempt
        /\ old.sha \in Nat /\ new.sha = old.sha /\ main \in Nat
    BY <2>4, ReviewAssumption DEF Jobs, Follows, Reviewed, Registered
  <2>6. s.last <= new.attempt
    BY <2>1, <2>3, <2>5
  <2>7. PastPin(new) => new.attempt = s.last
    <3>1. old.sha # main
      BY <2>1, <2>3, <2>5
    <3>2. QED
      BY <2>1, <2>3, <2>4, <3>1 DEF Follows
  <2>8. ASSUME NEW x \in artifacts', x.run = s.run PROVE x.attempt <= s.last
    <3>1. CASE x \in artifacts
      BY <2>1, <2>8, <3>1
    <3>2. CASE PastPin(old) /\ x.attempt = old.attempt
      BY <2>1, <2>3, <3>2
    <3>3. QED
      BY <2>3, <2>8, <3>1, <3>2 DEF PublishedPastPin
  <2>9. job'[s.run].sha < main
    BY <2>1, <2>3, <2>5
  <2>10. PastPin(job[s.run])' => job'[s.run].attempt = s.last
    BY <2>3, <2>7 DEF PastPin
  <2>11. QED
    BY <2>1, <2>2, <2>3, <2>6, <2>8, <2>9, <2>10 DEF SealTrue
<1>4. SealsTrue'
  BY <1>3 DEF SealsTrue, SealsApart, Reviewed
<1>5. ASSUME NEW x \in artifacts PROVE ArtifactTrue(x)'
  <2>1. ArtifactTrue(x)
    BY DEF Reviewed, ArtifactsTrue
  <2>2. PICK old, new : old = job[x.run] /\ new = job'[x.run]
    OBVIOUS
  <2>3. old \in Jobs /\ new \in Jobs /\ Follows(old, new)
    BY <2>1, <2>2 DEF ArtifactTrue, RunsKept
  <2>4. /\ old.attempt \in Nat /\ new.attempt \in Nat /\ old.attempt <= new.attempt
        /\ new.input = old.input
    BY <2>3, ReviewAssumption DEF Jobs, Follows
  <2>5. x.attempt <= new.attempt
    BY <2>1, <2>2, <2>4 DEF ArtifactTrue
  <2>6. QED
    BY <2>1, <2>2, <2>3, <2>4, <2>5 DEF ArtifactTrue
<1>6. QED
  BY <1>1, <1>2, <1>4, <1>5

(* A step of jobs alone. *)
LEMMA QuietStep ==
  ASSUME Reviewed, JobsTrue', RunsKept, UNCHANGED <<registry, artifacts, sealed>>
  PROVE  Reviewed'
<1> /\ UNCHANGED artifacts /\ UNCHANGED <<registry, sealed>>
  OBVIOUS
<1>1. PublishedPastPin
  BY DEF PublishedPastPin
<1>2. /\ Registered' /\ AppendTrue' /\ SealsTrue'
      /\ \A x \in artifacts : ArtifactTrue(x)'
  BY <1>1, KeptStep
<1>3. ArtifactsTrue'
  BY <1>2 DEF ArtifactsTrue, Reviewed
<1>4. QED
  BY <1>2, <1>3 DEF Reviewed

(* A run whose status is not idle has been dispatched. *)
LEMMA Dispatched ==
  ASSUME Reviewed, NEW r \in Runs, job[r].status # "idle"
  PROVE  job[r] \in Jobs /\ JobTrue(job[r], main)
<1>1. job[r] \in {Idle} \cup Jobs
  BY DEF Reviewed, JobsTrue
<1>2. job[r] # Idle
  BY DEF Idle
<1>3. QED
  BY <1>1, <1>2 DEF Reviewed, JobsTrue

LEMMA FollowsItself ==
  ASSUME NEW rec, rec \in Jobs
  PROVE  Follows(rec, rec)
<1>1. rec.attempt \in Nat
  BY ReviewAssumption DEF Jobs
<1>2. QED
  BY <1>1 DEF Follows

(* One run changes. *)
LEMMA OneRun ==
  ASSUME Reviewed, NEW r \in Runs, NEW rec, job[r] \in Jobs,
         job' = [job EXCEPT ![r] = rec], main' = main, JobTrue(rec, main),
         Follows(job[r], rec)
  PROVE  JobsTrue' /\ RunsKept
<1>1. job \in [Runs -> {Idle} \cup Jobs] /\ rec \in Jobs
  BY DEF Reviewed, JobsTrue, JobTrue
<1>2. job'[r] = rec /\ \A s \in Runs : s # r => job'[s] = job[s]
  BY <1>1
<1>3. job' \in [Runs -> {Idle} \cup Jobs]
  BY <1>1
<1>4. ASSUME NEW s \in Runs, job'[s] \in Jobs PROVE JobTrue(job'[s], main')
  BY <1>2, <1>4 DEF Reviewed, JobsTrue
<1>5. JobsTrue'
  BY <1>3, <1>4 DEF JobsTrue
<1>6. ASSUME NEW s \in Runs, job[s] \in Jobs
      PROVE  job'[s] \in Jobs /\ Follows(job[s], job'[s])
  <2>1. CASE s = r
    BY <1>1, <1>2, <2>1
  <2>2. CASE s # r
    BY <1>2, <1>6, <2>2, FollowsItself
  <2>3. QED
    BY <2>1, <2>2
<1>7. RunsKept
  BY <1>6 DEF RunsKept
<1>8. QED
  BY <1>5, <1>7

(* One run changes and nothing else does. *)
LEMMA OneRunStep ==
  ASSUME Reviewed, NEW r \in Runs, NEW rec, job[r] \in Jobs,
         job' = [job EXCEPT ![r] = rec], JobTrue(rec, main), Follows(job[r], rec),
         UNCHANGED <<registry, artifacts, sealed>>
  PROVE  Reviewed'
<1>1. main' = main
  BY DEF registry
<1>2. JobsTrue' /\ RunsKept
  BY <1>1, OneRun
<1>3. QED
  BY <1>2, QuietStep

(* A running job goes on, past its pin if it was or if it is at the tip of *)
(* main.                                                                   *)
LEMMA RunningFollows ==
  ASSUME NEW old, NEW new, old \in Jobs, old.status = "running",
         new.input = old.input, new.sha = old.sha, new.attempt = old.attempt,
         old.step # "pin" \/ old.sha = main
  PROVE  Follows(old, new)
<1>1. old.attempt \in Nat
  BY ReviewAssumption DEF Jobs
<1>2. old.status \notin Ended
  BY DEF Ended
<1>3. QED
  BY <1>1, <1>2 DEF Follows, PastPin

(* A job of which nothing is done yet is true, whatever it did before. *)
Undone(rec, status) == [NothingDone(rec) EXCEPT !.status = status]

LEMMA NothingDoneTrue ==
  ASSUME NEW tip \in Nat, NEW rec, JobTrue(rec, tip),
         NEW status \in Ended \cup {"pending", "running"},
         NEW new, new = Undone(rec, status)
  PROVE  /\ JobTrue(new, tip)
         /\ new.input = rec.input /\ new.sha = rec.sha /\ new.status = status
         /\ new.attempt = rec.attempt
         /\ ~ PastPin(new)
<1>1. rec \in Jobs /\ rec.sha <= tip
  BY DEF JobTrue
<1>2. new = [rec EXCEPT !.status = status, !.step = "pin", !.calls = 0, !.heard = <<>>,
                        !.results = <<>>]
  BY <1>1 DEF Undone, NothingDone, Jobs
<1>3. /\ new.status = status /\ new.step = "pin" /\ new.calls = 0 /\ new.heard = <<>>
      /\ new.results = <<>> /\ new.input = rec.input /\ new.sha = rec.sha
      /\ new.attempt = rec.attempt
  BY <1>1, <1>2 DEF Jobs
<1>4. <<>> \in Seq(Heard) /\ <<>> \in Seq(Results) /\ Len(<<>>) = 0
  OBVIOUS
<1>5. 0 \in 0 .. MaxCalls - 1
  BY ReviewAssumption
<1>6. "pin" \in Steps
  BY DEF Steps
<1>7. new \in Jobs
  BY <1>1, <1>2, <1>4, <1>5, <1>6 DEF Jobs
<1>8. new.step \notin LateSteps /\ new.step # "ask"
  BY <1>3 DEF LateSteps
<1>9. JobTrue(new, tip)
  BY <1>1, <1>3, <1>4, <1>7, <1>8 DEF JobTrue
<1>10. QED
  BY <1>3, <1>9 DEF PastPin

(* A job ends. *)
LEMMA EndStep ==
  ASSUME Reviewed, NEW r \in Runs, job[r].status # "idle", NEW status \in Ended,
         End(r, status), UNCHANGED <<registry, artifacts, sealed>>
  PROVE  Reviewed'
<1>1. job[r] \in Jobs /\ JobTrue(job[r], main) /\ main \in Nat
  BY Dispatched DEF Reviewed, Registered
<1>2. PICK new : new = Undone(job[r], status)
  OBVIOUS
<1>3. job' = [job EXCEPT ![r] = new]
  BY <1>2 DEF End, Undone
<1>4. JobTrue(new, main) /\ Follows(job[r], new)
  <2>1. PICK rec : rec = job[r]
    OBVIOUS
  <2>2. JobTrue(rec, main) /\ new = Undone(rec, status)
    BY <1>1, <1>2, <2>1
  <2>3. status \in Ended \cup {"pending", "running"}
    OBVIOUS
  <2>4. /\ JobTrue(new, main) /\ new.input = rec.input /\ new.sha = rec.sha
        /\ new.status = status /\ new.attempt = rec.attempt /\ ~ PastPin(new)
    BY <1>1, <2>2, <2>3, NothingDoneTrue
  <2>5. rec.attempt \in Nat
    BY <1>1, <2>1, ReviewAssumption DEF Jobs
  <2>6. Follows(rec, new)
    BY <2>4, <2>5 DEF Follows
  <2>7. QED
    BY <2>1, <2>4, <2>6
<1>5. QED
  BY <1>1, <1>3, <1>4, OneRunStep

LEMMA FailStep ==
  ASSUME Reviewed, NEW r \in Runs, job[r].status # "idle", Fail(r)
  PROVE  Reviewed'
<1>1. "failure" \in Ended
  BY DEF Ended
<1>2. QED
  BY <1>1, EndStep DEF Fail, evidence

(* A running job goes on to a step that what it holds is fit for. *)
LEMMA ProceedStep ==
  ASSUME Reviewed, NEW r \in Runs, job[r].status = "running", NEW step \in Steps,
         job' = [job EXCEPT ![r].step = step],
         job[r].step # "pin" \/ job[r].sha = main,
         step \in {"pin", "source"} => job[r].results = <<>>,
         step \notin {"pin", "source"} => Len(job[r].input.cases) \in 1 .. MaxCases,
         step = "ask" => Len(job[r].results) < Len(job[r].input.cases),
         step \in LateSteps => Len(job[r].results) = Len(job[r].input.cases),
         main' = main
  PROVE  /\ JobsTrue' /\ RunsKept
         /\ UNCHANGED <<registry, artifacts, sealed>> => Reviewed'
<1>1. job[r] \in Jobs /\ JobTrue(job[r], main)
  BY Dispatched
<1>2. PICK new : new = [job[r] EXCEPT !.step = step]
  OBVIOUS
<1>3. job' = [job EXCEPT ![r] = new]
  BY <1>2
<1>4. /\ new.input = job[r].input /\ new.sha = job[r].sha /\ new.status = "running"
      /\ new.step = step /\ new.results = job[r].results /\ new.heard = job[r].heard
      /\ new.attempt = job[r].attempt
  BY <1>1, <1>2 DEF Jobs
<1>5. Follows(job[r], new)
  BY <1>1, <1>4, RunningFollows
<1>6. new \in Jobs
  BY <1>1, <1>2 DEF Jobs
<1>7. JobTrue(new, main)
  BY <1>1, <1>4, <1>6 DEF JobTrue
<1>8. JobsTrue' /\ RunsKept
  BY <1>1, <1>3, <1>4, <1>5, <1>7, OneRun
<1>9. QED
  BY <1>8, QuietStep

LEMMA PinStep ==
  ASSUME Reviewed, NEW r \in Runs, Pin(r)
  PROVE  Reviewed'
<1>1. job[r].status = "running" /\ job[r].step = "pin"
  BY DEF Pin, At
<1>2. CASE job[r].policy = job[r].sha /\ main = job[r].sha
  <2>1. /\ job' = [job EXCEPT ![r].step = "source"]
        /\ UNCHANGED <<registry, artifacts, sealed>> /\ main' = main
    BY <1>2 DEF Pin, Proceed, registry, evidence
  <2>2. "source" \in Steps /\ "source" \notin LateSteps
    BY DEF Steps, LateSteps
  <2>3. JobTrue(job[r], main)
    BY <1>1, Dispatched
  <2>4. job[r].results = <<>>
    BY <1>1, <2>3 DEF JobTrue
  <2>5. QED
    BY <1>1, <1>2, <2>1, <2>2, <2>4, ProceedStep
<1>3. CASE ~ (job[r].policy = job[r].sha /\ main = job[r].sha)
  <2>1. Fail(r)
    BY <1>3 DEF Pin, Proceed
  <2>2. QED
    BY <1>1, <2>1, FailStep
<1>4. QED
  BY <1>2, <1>3

LEMMA VerifySourceStep ==
  ASSUME Reviewed, NEW r \in Runs, VerifySource(r)
  PROVE  Reviewed'
<1>1. job[r].status = "running" /\ job[r].step = "source"
  BY DEF VerifySource, At
<1>2. CASE SourceOk(job[r].input)
  <2>1. /\ job' = [job EXCEPT ![r].step = "ask"]
        /\ UNCHANGED <<registry, artifacts, sealed>> /\ main' = main
    BY <1>2 DEF VerifySource, Proceed, registry, evidence
  <2>2. "ask" \in Steps /\ "ask" \notin LateSteps
    BY DEF Steps, LateSteps
  <2>3. JobTrue(job[r], main)
    BY <1>1, Dispatched
  <2>4. job[r].results = <<>>
    BY <1>1, <2>3 DEF JobTrue
  <2>5. Len(job[r].input.cases) \in 1 .. MaxCases
    BY <1>2 DEF SourceOk
  <2>6. Len(job[r].results) < Len(job[r].input.cases)
    <3>1. Len(job[r].results) = 0
      BY <2>4
    <3>2. Len(job[r].input.cases) >= 1
      BY <2>5, ReviewAssumption
    <3>3. QED
      BY <2>5, <3>1, <3>2, ReviewAssumption
  <2>7. QED
    BY <1>1, <2>1, <2>2, <2>5, <2>6, ProceedStep
<1>3. CASE ~ SourceOk(job[r].input)
  <2>1. Fail(r)
    BY <1>3 DEF VerifySource, Proceed
  <2>2. QED
    BY <1>1, <2>1, FailStep
<1>4. QED
  BY <1>2, <1>3

LEMMA BuildIndexStep ==
  ASSUME Reviewed, NEW r \in Runs, BuildIndex(r)
  PROVE  Reviewed'
<1>1. job[r].status = "running" /\ job[r].step = "index"
  BY DEF BuildIndex, At
<1>2. CASE IndexOk(job[r].results)
  <2>1. /\ job' = [job EXCEPT ![r].step = "attest"]
        /\ UNCHANGED <<registry, artifacts, sealed>> /\ main' = main
    BY <1>2 DEF BuildIndex, Proceed, registry, evidence
  <2>2. "attest" \in Steps /\ "index" \in LateSteps /\ "index" \notin {"pin", "source"}
    BY DEF Steps, LateSteps
  <2>3. JobTrue(job[r], main)
    BY <1>1, Dispatched
  <2>4. /\ Len(job[r].input.cases) \in 1 .. MaxCases
        /\ Len(job[r].results) = Len(job[r].input.cases)
    BY <1>1, <2>2, <2>3 DEF JobTrue
  <2>5. QED
    BY <1>1, <2>1, <2>2, <2>4, ProceedStep
<1>3. CASE ~ IndexOk(job[r].results)
  <2>1. Fail(r)
    BY <1>3 DEF BuildIndex, Proceed
  <2>2. QED
    BY <1>1, <2>1, FailStep
<1>4. QED
  BY <1>2, <1>3

LEMMA AttestStep ==
  ASSUME Reviewed, NEW r \in Runs, Attest(r)
  PROVE  Reviewed'
<1>1. job[r].status = "running" /\ job[r].step = "attest"
  BY DEF Attest, At
<1>2. /\ job' = [job EXCEPT ![r].step = "upload"]
      /\ UNCHANGED <<registry, artifacts, sealed>> /\ main' = main
  BY DEF Attest, registry
<1>3. "upload" \in Steps /\ "attest" \in LateSteps /\ "attest" \notin {"pin", "source"}
  BY DEF Steps, LateSteps
<1>4. JobTrue(job[r], main)
  BY <1>1, Dispatched
<1>5. /\ Len(job[r].input.cases) \in 1 .. MaxCases
      /\ Len(job[r].results) = Len(job[r].input.cases)
  BY <1>1, <1>3, <1>4 DEF JobTrue
<1>6. QED
  BY <1>1, <1>2, <1>3, <1>5, ProceedStep

LEMMA ConcludeStep ==
  ASSUME Reviewed, NEW r \in Runs, Conclude(r)
  PROVE  Reviewed'
<1>1. job[r].status # "idle" /\ "success" \in Ended
  BY DEF Conclude, At, Ended
<1>2. QED
  BY <1>1, EndStep DEF Conclude, evidence

(* The upload of an index is of an attempt that is past its pin: a review  *)
(* of its run is sealed only if the push came after that attempt began.    *)
LEMMA UploadStep ==
  ASSUME Reviewed, NEW r \in Runs, Upload(r)
  PROVE  Reviewed'
<1>1. /\ job[r].status = "running" /\ job[r].step = "upload"
      /\ artifacts' = artifacts \cup {Index(r)}
      /\ job' = [job EXCEPT ![r].step = "conclude"]
      /\ UNCHANGED <<registry, sealed>> /\ main' = main
  BY DEF Upload, At, registry
<1>2. "conclude" \in Steps /\ "upload" \in LateSteps /\ "upload" \notin {"pin", "source"}
  BY DEF Steps, LateSteps
<1>3. job[r] \in Jobs /\ JobTrue(job[r], main)
  BY <1>1, Dispatched
<1>4. /\ Len(job[r].input.cases) \in 1 .. MaxCases
      /\ Len(job[r].results) = Len(job[r].input.cases)
  BY <1>1, <1>2, <1>3 DEF JobTrue
<1>5. JobsTrue' /\ RunsKept
  BY <1>1, <1>2, <1>4, ProceedStep
<1>6. PICK new : new = Index(r)
  OBVIOUS
<1>7. /\ new.run = r /\ new.id = job[r].input.id /\ new.results = job[r].results
      /\ new.attempt = job[r].attempt
  BY <1>6 DEF Index
<1>8. Registered' /\ AppendTrue' /\ SealsTrue' /\ \A x \in artifacts : ArtifactTrue(x)'
  <2>1. PastPin(job[r])
    BY <1>1 DEF PastPin
  <2>2. PublishedPastPin
    BY <1>1, <1>6, <1>7, <2>1 DEF PublishedPastPin
  <2>3. QED
    BY <1>1, <1>5, <2>2, KeptStep
<1>9. ArtifactTrue(new)'
  <2>1. /\ job'[r] \in Jobs /\ job'[r].input = job[r].input
        /\ job[r].attempt <= job'[r].attempt
    BY <1>3, <1>5 DEF RunsKept, Follows
  <2>2. job[r].results \in Seq(Results) /\ job[r].attempt \in Nat
    BY <1>3, ReviewAssumption DEF Jobs
  <2>3. \A k \in DOMAIN job[r].results : Reconciled(job[r].results[k])
    BY <1>3 DEF JobTrue
  <2>4. QED
    BY <1>7, <2>1, <2>2, <2>3 DEF ArtifactTrue
<1>10. IsFiniteSet(artifacts')
  <2>1. IsFiniteSet(artifacts)
    BY DEF Reviewed, ArtifactsTrue
  <2>2. QED
    BY <1>1, <2>1, FS_AddElement
<1>11. ArtifactsTrue'
  BY <1>1, <1>6, <1>8, <1>9, <1>10 DEF ArtifactsTrue
<1>12. QED
  BY <1>5, <1>8, <1>11 DEF Reviewed

(* A model has approved: its reading is heard beside the other's. *)
LEMMA ApproveStep ==
  ASSUME Reviewed, NEW r \in Runs, job[r].status = "running", job[r].step = "ask",
         Len(job[r].heard) < 2, Approve(r)
  PROVE  Reviewed'
<1>1. PICK reading \in Readings, model \in Returned[Len(job[r].heard) + 1] :
        job' = [job EXCEPT ![r].calls = 0,
                           ![r].heard = Append(@, [model |-> model, reading |-> reading])]
  BY DEF Approve
<1>2. UNCHANGED <<registry, artifacts, sealed>>
  BY DEF Approve, evidence
<1>3. job[r] \in Jobs /\ JobTrue(job[r], main)
  BY Dispatched
<1>4. PICK heard : heard = Append(job[r].heard, [model |-> model, reading |-> reading])
  OBVIOUS
<1>5. PICK new : new = [job[r] EXCEPT !.calls = 0, !.heard = heard]
  OBVIOUS
<1>6. job' = [job EXCEPT ![r] = new]
  BY <1>1, <1>4, <1>5
<1>7. /\ new.calls = 0 /\ new.heard = heard /\ new.status = "running" /\ new.step = "ask"
      /\ new.results = job[r].results /\ new.input = job[r].input /\ new.sha = job[r].sha
      /\ new.attempt = job[r].attempt
  BY <1>3, <1>5 DEF Jobs
<1>8. job[r].heard \in Seq(Heard) /\ Len(job[r].heard) \in Nat
  BY <1>3 DEF Jobs
<1>9. [model |-> model, reading |-> reading] \in Heard
  <2>1. Len(job[r].heard) + 1 \in {1, 2}
    BY <1>8
  <2>2. model \in Returned[1] \cup Returned[2]
    BY <2>1
  <2>3. QED
    BY <2>2 DEF Heard
<1>10. heard \in Seq(Heard) /\ Len(heard) = Len(job[r].heard) + 1
  BY <1>4, <1>8, <1>9, AppendProperties
<1>11. 0 \in 0 .. MaxCalls - 1
  BY ReviewAssumption
<1>12. new \in Jobs
  BY <1>3, <1>5, <1>10, <1>11 DEF Jobs
<1>13. Len(new.heard) <= 2
  BY <1>7, <1>8, <1>10
<1>14. JobTrue(new, main)
  BY <1>3, <1>7, <1>12, <1>13 DEF JobTrue
<1>15. Follows(job[r], new)
  BY <1>3, <1>7, RunningFollows
<1>16. QED
  BY <1>2, <1>3, <1>6, <1>7, <1>14, <1>15, OneRunStep

LEMMA RetryStep ==
  ASSUME Reviewed, NEW r \in Runs, job[r].status = "running", job[r].step = "ask",
         Retry(r)
  PROVE  Reviewed'
<1>1. CASE job[r].calls + 1 < MaxCalls
  <2>1. job' = [job EXCEPT ![r].calls = @ + 1] /\ UNCHANGED <<registry, artifacts, sealed>>
    BY <1>1 DEF Retry, evidence
  <2>2. job[r] \in Jobs /\ JobTrue(job[r], main)
    BY Dispatched
  <2>3. PICK calls : calls = job[r].calls + 1
    OBVIOUS
  <2>4. PICK new : new = [job[r] EXCEPT !.calls = calls]
    OBVIOUS
  <2>5. job' = [job EXCEPT ![r] = new]
    BY <2>1, <2>3, <2>4
  <2>6. /\ new.status = job[r].status /\ new.step = job[r].step /\ new.heard = job[r].heard
        /\ new.results = job[r].results /\ new.input = job[r].input /\ new.sha = job[r].sha
        /\ new.attempt = job[r].attempt
    BY <2>2, <2>4 DEF Jobs
  <2>7. calls \in 0 .. MaxCalls - 1
    <3>1. job[r].calls \in 0 .. MaxCalls - 1
      BY <2>2 DEF Jobs
    <3>2. QED
      BY <1>1, <2>3, <3>1, ReviewAssumption
  <2>8. new \in Jobs
    BY <2>2, <2>4, <2>7 DEF Jobs
  <2>9. JobTrue(new, main)
    BY <2>2, <2>6, <2>8 DEF JobTrue
  <2>10. Follows(job[r], new)
    BY <2>2, <2>6, RunningFollows
  <2>11. QED
    BY <2>1, <2>2, <2>5, <2>6, <2>9, <2>10, OneRunStep
<1>2. CASE ~ (job[r].calls + 1 < MaxCalls)
  <2>1. Fail(r) /\ job[r].status # "idle"
    BY <1>2 DEF Retry
  <2>2. QED
    BY <2>1, FailStep
<1>3. QED
  BY <1>1, <1>2

LEMMA AskStep ==
  ASSUME Reviewed, NEW r \in Runs, Ask(r)
  PROVE  Reviewed'
<1>1. job[r].status = "running" /\ job[r].step = "ask" /\ Len(job[r].heard) < 2
  BY DEF Ask, At
<1>2. job[r].status # "idle"
  BY <1>1
<1>3. Approve(r) \/ Retry(r) \/ Fail(r)
  BY DEF Ask
<1>4. QED
  BY <1>1, <1>2, <1>3, ApproveStep, RetryStep, FailStep

(* What two readings amount to is a result of the candidate. *)
LEMMA ResultReconciled ==
  ASSUME NEW heard \in Seq(Heard), Len(heard) = 2,
         Distinct(heard), AgreementOf(heard).reconciled,
         NEW candidate \in Candidates
  PROVE  Reconciled(Result(candidate, heard))
<1>1. heard[1] \in Heard /\ heard[2] \in Heard
  <2>1. ASSUME NEW n \in 1 .. Len(heard) PROVE heard[n] \in Heard
    BY ElementOfSeq
  <2>2. 1 \in 1 .. Len(heard) /\ 2 \in 1 .. Len(heard)
    OBVIOUS
  <2>3. QED
    BY <2>1, <2>2
<1>2. heard[1].reading \in Readings /\ heard[2].reading \in Readings
  BY <1>1 DEF Heard
<1>3. PICK x : x = Result(candidate, heard)
  OBVIOUS
<1>4. PICK aliases : aliases = AgreementOf(heard).aliases
  OBVIOUS
<1>5. x = [candidate |-> candidate, heard |-> heard, aliases |-> aliases]
  BY <1>3, <1>4 DEF Result
<1>6. aliases \in {Agreement[l][m].aliases : l \in Readings, m \in Readings}
  BY <1>2, <1>4 DEF AgreementOf
<1>7. x \in Results
  BY <1>5, <1>6 DEF Results
<1>8. x.heard = heard /\ x.aliases = aliases
  BY <1>5
<1>9. Reconciled(x)
  BY <1>4, <1>7, <1>8 DEF Reconciled
<1>10. QED
  BY <1>3, <1>9

(* A case is decided: the next one is asked about, or the index is written. *)
LEMMA ReconcileStep ==
  ASSUME Reviewed, NEW r \in Runs, Reconcile(r)
  PROVE  Reviewed'
<1>1. job[r].status = "running" /\ job[r].step = "ask" /\ Len(job[r].heard) = 2
  BY DEF Reconcile, At
<1>2. job[r] \in Jobs /\ JobTrue(job[r], main)
  BY <1>1, Dispatched
<1>3. CASE Distinct(job[r].heard) /\ AgreementOf(job[r].heard).reconciled
  <2>1. PICK x : x = Result(Candidate(r), job[r].heard)
    OBVIOUS
  <2>2. PICK results : results = Append(job[r].results, x)
    OBVIOUS
  <2>3. PICK step : step = IF Len(results) = Len(job[r].input.cases) THEN "index" ELSE "ask"
    OBVIOUS
  <2>4. PICK new : new = [job[r] EXCEPT !.heard = <<>>, !.results = results, !.step = step]
    OBVIOUS
  <2>5. /\ job' = [job EXCEPT ![r].heard = <<>>, ![r].results = results, ![r].step = step]
        /\ UNCHANGED <<registry, artifacts, sealed>>
    BY <1>3, <2>1, <2>2, <2>3 DEF Reconcile, evidence
  <2>6. job' = [job EXCEPT ![r] = new]
    BY <2>4, <2>5
  <2>7. /\ new.status = "running" /\ new.step = step /\ new.heard = <<>>
        /\ new.results = results /\ new.input = job[r].input /\ new.sha = job[r].sha
        /\ new.attempt = job[r].attempt
    BY <1>1, <1>2, <2>4 DEF Jobs
  <2>8. /\ job[r].heard \in Seq(Heard) /\ job[r].results \in Seq(Results)
        /\ job[r].input \in Inputs
    BY <1>2 DEF Jobs
  <2>9. /\ "ask" \notin {"pin", "source"} /\ "index" \notin {"pin", "source"}
        /\ "ask" \notin LateSteps
    BY DEF LateSteps
  <2>10. /\ Len(job[r].input.cases) \in 1 .. MaxCases
         /\ Len(job[r].results) < Len(job[r].input.cases)
         /\ \A k \in DOMAIN job[r].results : Reconciled(job[r].results[k])
    BY <1>1, <1>2, <2>9 DEF JobTrue
  <2>11. Len(job[r].results) \in Nat
    BY <2>8, LenProperties
  <2>12. Candidate(r) \in Candidates
    <3>1. job[r].input.cases \in Seq(Candidates)
      BY <2>8, ReviewAssumption
    <3>2. Len(job[r].results) + 1 \in 1 .. Len(job[r].input.cases)
      BY <2>10, <2>11
    <3>3. QED
      BY <3>1, <3>2, ElementOfSeq DEF Candidate
  <2>13. Reconciled(x)
    BY <1>1, <1>3, <2>1, <2>8, <2>12, ResultReconciled
  <2>14. x \in Results
    BY <2>13 DEF Reconciled
  <2>15. /\ results \in Seq(Results) /\ Len(results) = Len(job[r].results) + 1
         /\ DOMAIN results = 1 .. Len(job[r].results) + 1
         /\ results[Len(job[r].results) + 1] = x
         /\ \A k \in 1 .. Len(job[r].results) : results[k] = job[r].results[k]
    BY <2>2, <2>8, <2>14, AppendProperties, LenProperties
  <2>16. \A k \in DOMAIN results : Reconciled(results[k])
    <3>1. SUFFICES ASSUME NEW k \in DOMAIN results PROVE Reconciled(results[k])
      OBVIOUS
    <3>2. CASE k = Len(job[r].results) + 1
      BY <2>13, <2>15, <3>2
    <3>3. CASE k # Len(job[r].results) + 1
      <4>1. k \in 1 .. Len(job[r].results)
        BY <2>11, <2>15, <3>3
      <4>2. k \in DOMAIN job[r].results
        BY <2>8, <4>1, LenProperties
      <4>3. QED
        BY <2>10, <2>15, <4>1, <4>2
    <3>4. QED
      BY <3>2, <3>3
  <2>17. step \in {"ask", "index"}
    BY <2>3
  <2>18. step \in Steps
    BY <2>17 DEF Steps, LateSteps
  <2>19. <<>> \in Seq(Heard) /\ Len(<<>>) <= 2
    OBVIOUS
  <2>20. new \in Jobs
    BY <1>2, <2>4, <2>15, <2>18, <2>19 DEF Jobs
  <2>21. step = "ask" => Len(results) < Len(job[r].input.cases)
    <3>1. step = "ask" => Len(results) # Len(job[r].input.cases)
      BY <2>3
    <3>2. QED
      BY <2>10, <2>11, <2>15, <3>1, ReviewAssumption
  <2>22. step \in LateSteps => Len(results) = Len(job[r].input.cases)
    BY <2>3, <2>9
  <2>23. step # "pin" /\ step # "source"
    BY <2>17
  <2>24. JobTrue(new, main)
    BY <1>2, <2>7, <2>10, <2>16, <2>19, <2>20, <2>21, <2>22, <2>23 DEF JobTrue
  <2>25. Follows(job[r], new)
    BY <1>1, <1>2, <2>7, RunningFollows
  <2>26. QED
    BY <1>2, <2>5, <2>6, <2>7, <2>24, <2>25, OneRunStep
<1>4. CASE ~ (Distinct(job[r].heard) /\ AgreementOf(job[r].heard).reconciled)
  <2>1. Fail(r) /\ job[r].status # "idle"
    BY <1>1, <1>4 DEF Reconcile
  <2>2. QED
    BY <2>1, FailStep
<1>5. QED
  BY <1>3, <1>4

-----------------------------------------------------------------------------
(* A run enters its request's group. *)
LEMMA EnqueueStep ==
  ASSUME Reviewed, NEW r \in Runs, NEW new, Enqueue(r, new),
         JobTrue(new, main), job[r] \in Jobs => Follows(job[r], new),
         UNCHANGED <<registry, artifacts, sealed>>
  PROVE  Reviewed'
<1> DEFINE Cancelled(s) == [job[s] EXCEPT !.status = "cancelled"]
<1>1. job \in [Runs -> {Idle} \cup Jobs] /\ new \in Jobs /\ main' = main
  BY DEF Reviewed, JobsTrue, JobTrue, registry
<1>2. ASSUME NEW s \in Runs, s # r
      PROVE  job'[s] = job[s] \/ (job[s].status = "pending" /\ job'[s] = Cancelled(s))
  BY <1>2 DEF Enqueue
<1>3. job'[r] = new /\ DOMAIN job' = Runs /\ job' = [s \in Runs |-> job'[s]]
  BY DEF Enqueue
<1>4. ASSUME NEW s \in Runs, job[s].status = "pending"
      PROVE  /\ JobTrue(Cancelled(s), main) /\ Cancelled(s) \in Jobs
             /\ Follows(job[s], Cancelled(s))
  <2>1. job[s] \in Jobs /\ JobTrue(job[s], main)
    <3>1. job[s].status # "idle"
      BY <1>4
    <3>2. QED
      BY <3>1, Dispatched
  <2>2. PICK rec : rec = Cancelled(s)
    OBVIOUS
  <2>3. /\ rec.status = "cancelled" /\ rec.step = job[s].step /\ rec.heard = job[s].heard
        /\ rec.results = job[s].results /\ rec.input = job[s].input /\ rec.sha = job[s].sha
        /\ rec.attempt = job[s].attempt
    BY <2>1, <2>2 DEF Jobs
  <2>4. "cancelled" \in Ended
    BY DEF Ended
  <2>5. rec \in Jobs
    BY <2>1, <2>2, <2>4 DEF Jobs
  <2>6. rec.status # "pending" /\ rec.status # "running"
    BY <2>3
  <2>7. JobTrue(rec, main)
    BY <2>1, <2>3, <2>5, <2>6 DEF JobTrue
  <2>8. Follows(job[s], rec)
    <3>1. job[s].attempt \in Nat
      BY <2>1, ReviewAssumption DEF Jobs
    <3>2. QED
      BY <2>3, <2>4, <2>6, <3>1 DEF Follows, PastPin
  <2>9. QED
    BY <2>2, <2>5, <2>7, <2>8
<1> HIDE DEF Cancelled
<1>5. ASSUME NEW s \in Runs
      PROVE  /\ job'[s] \in {Idle} \cup Jobs
             /\ job'[s] \in Jobs => JobTrue(job'[s], main)
  <2>1. CASE s = r
    BY <1>1, <1>3, <2>1
  <2>2. CASE s # r
    <3>1. CASE job'[s] = job[s]
      BY <1>1, <3>1 DEF Reviewed, JobsTrue
    <3>2. CASE job[s].status = "pending" /\ job'[s] = Cancelled(s)
      BY <1>4, <3>2
    <3>3. QED
      BY <1>2, <2>2, <3>1, <3>2
  <2>3. QED
    BY <2>1, <2>2
<1>6. JobsTrue'
  <2>1. job' \in [Runs -> {Idle} \cup Jobs]
    BY <1>3, <1>5
  <2>2. QED
    BY <1>1, <1>5, <2>1 DEF JobsTrue
<1>7. ASSUME NEW s \in Runs, job[s] \in Jobs
      PROVE  job'[s] \in Jobs /\ Follows(job[s], job'[s])
  <2>1. CASE s = r
    BY <1>1, <1>3, <1>7, <2>1
  <2>2. CASE s # r
    <3>1. CASE job'[s] = job[s]
      BY <1>7, <3>1, FollowsItself
    <3>2. CASE job[s].status = "pending" /\ job'[s] = Cancelled(s)
      BY <1>4, <3>2
    <3>3. QED
      BY <1>2, <2>2, <3>1, <3>2
  <2>3. QED
    BY <2>1, <2>2
<1>8. RunsKept
  BY <1>7 DEF RunsKept
<1>9. QED
  BY <1>6, <1>8, QuietStep

LEMMA DispatchStep ==
  ASSUME Reviewed, NEW r \in Runs, Dispatch(r)
  PROVE  Reviewed'
<1>1. PICK i \in Inputs, tip \in 1 .. main :
        Enqueue(r, [status |-> "pending", step |-> "pin", calls |-> 0, heard |-> <<>>,
                    results |-> <<>>, input |-> i, attempt |-> 1, sha |-> main,
                    policy |-> tip])
  BY DEF Dispatch
<1>2. job[r].status = "idle" /\ UNCHANGED <<registry, artifacts, sealed>>
  BY DEF Dispatch, evidence
<1>3. job[r] \notin Jobs
  <2>1. SUFFICES ASSUME job[r] \in Jobs PROVE FALSE
    OBVIOUS
  <2>2. job[r].status \in Ended \cup {"pending", "running"}
    BY <2>1 DEF Jobs
  <2>3. QED
    BY <1>2, <2>2 DEF Ended
<1>4. PICK new : new = [status |-> "pending", step |-> "pin", calls |-> 0, heard |-> <<>>,
                        results |-> <<>>, input |-> i, attempt |-> 1, sha |-> main,
                        policy |-> tip]
  OBVIOUS
<1>5. main \in Nat
  BY DEF Reviewed, Registered
<1>6. /\ 0 \in 0 .. MaxCalls - 1 /\ 1 \in 1 .. MaxAttempts /\ tip \in Nat
      /\ <<>> \in Seq(Heard) /\ <<>> \in Seq(Results) /\ "pin" \in Steps
  <2>1. 0 \in 0 .. MaxCalls - 1
    BY ReviewAssumption
  <2>2. 1 \in 1 .. MaxAttempts
    BY ReviewAssumption
  <2>3. tip \in Nat
    BY <1>5
  <2>4. QED
    BY <2>1, <2>2, <2>3 DEF Steps
<1>7. new \in Jobs
  BY <1>4, <1>5, <1>6 DEF Jobs
<1>8. /\ new.status = "pending" /\ new.step = "pin" /\ new.heard = <<>>
      /\ new.results = <<>> /\ new.sha = main
  BY <1>4
<1>9. new.step \notin LateSteps /\ new.step # "ask"
  BY <1>8 DEF LateSteps
<1>10. JobTrue(new, main)
  BY <1>5, <1>7, <1>8, <1>9 DEF JobTrue
<1>11. Enqueue(r, new)
  BY <1>1, <1>4
<1>12. QED
  BY <1>2, <1>3, <1>10, <1>11, EnqueueStep

LEMMA RerunStep ==
  ASSUME Reviewed, NEW r \in Runs, Rerun(r)
  PROVE  Reviewed'
<1>1. /\ job[r].status \in Ended /\ job[r].attempt < MaxAttempts
      /\ Enqueue(r, NothingDone([job[r] EXCEPT !.attempt = @ + 1]))
      /\ UNCHANGED <<registry, artifacts, sealed>>
  BY DEF Rerun, evidence
<1>2. job[r] \in Jobs /\ JobTrue(job[r], main) /\ main \in Nat
  <2>1. job[r].status # "idle"
    BY <1>1 DEF Ended
  <2>2. QED
    BY <2>1, Dispatched DEF Reviewed, Registered
<1>3. PICK attempt : attempt = job[r].attempt + 1
  OBVIOUS
<1>4. PICK again : again = [job[r] EXCEPT !.attempt = attempt]
  OBVIOUS
<1>5. /\ again.status = job[r].status /\ again.step = job[r].step
      /\ again.heard = job[r].heard /\ again.results = job[r].results
      /\ again.input = job[r].input /\ again.sha = job[r].sha /\ again.attempt = attempt
  BY <1>2, <1>4 DEF Jobs
<1>6. attempt \in 1 .. MaxAttempts
  <2>1. job[r].attempt \in 1 .. MaxAttempts
    BY <1>2 DEF Jobs
  <2>2. QED
    BY <1>1, <1>3, <2>1, ReviewAssumption
<1>7. again \in Jobs
  BY <1>2, <1>4, <1>6 DEF Jobs
<1>8. JobTrue(again, main)
  BY <1>2, <1>5, <1>7 DEF JobTrue
<1>9. PICK new : new = Undone(again, "pending")
  OBVIOUS
<1>10. /\ JobTrue(new, main) /\ new.input = again.input /\ new.sha = again.sha
       /\ new.attempt = again.attempt /\ ~ PastPin(new)
  <2>1. "pending" \in Ended \cup {"pending", "running"}
    OBVIOUS
  <2>2. QED
    BY <1>2, <1>8, <1>9, <2>1, NothingDoneTrue
<1>11. new = NothingDone(again)
  BY <1>7, <1>9 DEF Undone, NothingDone, Jobs
<1>12. Enqueue(r, new)
  BY <1>1, <1>3, <1>4, <1>11
<1>13. Follows(job[r], new)
  <2>1. job[r].attempt \in Nat
    BY <1>2, ReviewAssumption DEF Jobs
  <2>2. job[r].attempt <= new.attempt /\ job[r].attempt # new.attempt
    BY <1>3, <1>5, <1>10, <2>1
  <2>3. QED
    BY <1>5, <1>10, <2>2 DEF Follows
<1>14. QED
  BY <1>1, <1>10, <1>12, <1>13, EnqueueStep

LEMMA StartStep ==
  ASSUME Reviewed, NEW r \in Runs, Start(r)
  PROVE  Reviewed'
<1>1. /\ job[r].status = "pending" /\ job' = [job EXCEPT ![r].status = "running"]
      /\ UNCHANGED <<registry, artifacts, sealed>>
  BY DEF Start, evidence
<1>2. job[r] \in Jobs /\ JobTrue(job[r], main)
  <2>1. job[r].status # "idle"
    BY <1>1
  <2>2. QED
    BY <2>1, Dispatched
<1>3. PICK new : new = [job[r] EXCEPT !.status = "running"]
  OBVIOUS
<1>4. /\ new.status = "running" /\ new.step = job[r].step /\ new.heard = job[r].heard
      /\ new.results = job[r].results /\ new.input = job[r].input /\ new.sha = job[r].sha
      /\ new.attempt = job[r].attempt
  BY <1>2, <1>3 DEF Jobs
<1>5. new.step = "pin"
  BY <1>1, <1>2, <1>4 DEF JobTrue
<1>6. new \in Jobs
  BY <1>2, <1>3 DEF Jobs
<1>7. JobTrue(new, main)
  BY <1>2, <1>4, <1>6 DEF JobTrue
<1>8. job' = [job EXCEPT ![r] = new] /\ Follows(job[r], new)
  <2>1. job[r].attempt \in Nat /\ job[r].status \notin Ended
    BY <1>1, <1>2, ReviewAssumption DEF Jobs, Ended
  <2>2. QED
    BY <1>1, <1>3, <1>4, <1>5, <2>1 DEF Follows, PastPin
<1>9. QED
  BY <1>1, <1>2, <1>4, <1>7, <1>8, OneRunStep

LEMMA InterruptStep ==
  ASSUME Reviewed, NEW r \in Runs, Interrupt(r)
  PROVE  Reviewed'
<1>1. job[r].status # "idle" /\ Fail(r)
  BY DEF Interrupt
<1>2. QED
  BY <1>1, FailStep

-----------------------------------------------------------------------------
(* Recording adds to what is recorded. *)
LEMMA RecordedSeq ==
  ASSUME NEW log, Recorded(log), NEW e
  PROVE  /\ Recorded(Append(log, e))
         /\ Len(log) \in Nat /\ DOMAIN log = 1 .. Len(log)
         /\ DOMAIN Append(log, e) = 1 .. Len(log) + 1
         /\ Append(log, e)[Len(log) + 1] = e
         /\ \A i \in DOMAIN log : Append(log, e)[i] = log[i]
<1> DEFINE T == S!Range(log) \cup {e}
<1>1. log \in Seq(T) /\ e \in T
  BY SeqMonotonic DEF Recorded
<1> HIDE DEF T
<1>2. PICK new : new = Append(log, e)
  OBVIOUS
<1>3. /\ new \in Seq(T) /\ Len(new) = Len(log) + 1
      /\ new[Len(log) + 1] = e /\ \A i \in 1 .. Len(log) : new[i] = log[i]
  BY <1>1, <1>2, AppendProperties
<1>4. Len(log) \in Nat /\ DOMAIN log = 1 .. Len(log)
  BY <1>1, LenProperties
<1>5. DOMAIN new = 1 .. Len(log) + 1 /\ Len(new) \in Nat
  BY <1>3, LenProperties
<1>6. \A i \in 1 .. Len(new) : new[i] \in S!Range(new)
  BY <1>3, <1>5 DEF S!Range
<1>7. new \in [1 .. Len(new) -> T]
  BY <1>3, LenProperties
<1>8. Recorded(new)
  BY <1>5, <1>6, <1>7 DEF Recorded
<1>9. QED
  BY <1>2, <1>3, <1>4, <1>5, <1>8

(* Jobs and artifacts do not change when main moves on. *)
LEMMA MainMoves ==
  ASSUME Reviewed, main' = main + 1, UNCHANGED <<job, artifacts>>
  PROVE  main' \in Nat /\ JobsTrue' /\ ArtifactsTrue'
<1> UNCHANGED job /\ UNCHANGED artifacts
  OBVIOUS
<1>1. main \in Nat /\ main' \in Nat
  BY DEF Reviewed, Registered
<1>2. ASSUME NEW r \in Runs, job[r] \in Jobs PROVE JobTrue(job[r], main')
  <2>1. JobTrue(job[r], main)
    BY <1>2 DEF Reviewed, JobsTrue
  <2>2. job[r].sha \in Nat /\ job[r].sha <= main
    BY <1>2, <2>1 DEF Jobs, JobTrue
  <2>3. job[r].sha <= main'
    BY <1>1, <2>2
  <2>4. QED
    BY <2>1, <2>3 DEF JobTrue
<1>3. JobsTrue'
  BY <1>2 DEF Reviewed, JobsTrue
<1>4. ArtifactsTrue'
  BY DEF Reviewed, ArtifactsTrue, ArtifactTrue
<1>5. QED
  BY <1>1, <1>3, <1>4

(* Jobs and artifacts stay: so does all that an append knows of them. *)
LEMMA SettledUnmoved ==
  ASSUME UNCHANGED <<job, artifacts>>, NEW y, Settled(y)
  PROVE  Settled(y)'
BY DEF Settled

(* What is sealed stays so while main moves on and the registry grows. *)
LEMMA SealsStay ==
  ASSUME Reviewed, main' = main + 1, UNCHANGED <<job, artifacts>>,
         \A i \in DOMAIN events : i \in DOMAIN events' /\ events'[i] = events[i],
         NEW s \in sealed
  PROVE  SealTrue(s)'
<1> /\ UNCHANGED job /\ UNCHANGED artifacts
  OBVIOUS
<1>1. SealTrue(s)
  BY DEF Reviewed, SealsTrue
<1>2. job[s.run] \in Jobs /\ job[s.run].sha < main /\ Settled(s)
  BY <1>1 DEF SealTrue, Settled
<1>3. job[s.run].sha < main'
  <2>1. job[s.run].sha \in Nat /\ main \in Nat
    BY <1>2 DEF Jobs, Reviewed, Registered
  <2>2. QED
    BY <1>2, <2>1
<1>4. Settled(s)'
  BY <1>2, SettledUnmoved
<1>5. QED
  BY <1>1, <1>3, <1>4 DEF SealTrue, PastPin

LEMMA MergeCodeStep ==
  ASSUME Reviewed, MergeCode
  PROVE  Reviewed'
<1>1. /\ main' = main + 1 /\ UNCHANGED events /\ UNCHANGED append /\ UNCHANGED job
      /\ UNCHANGED artifacts /\ UNCHANGED sealed
  BY DEF MergeCode, evidence
<1>2. main' \in Nat /\ JobsTrue' /\ ArtifactsTrue'
  BY <1>1, MainMoves
<1>3. \A s \in sealed : SealTrue(s)'
  BY <1>1, SealsStay
<1>4. SealsTrue'
  BY <1>1, <1>3 DEF SealsTrue, SealsApart, Reviewed
<1>5. Registered' /\ AppendTrue'
  BY <1>1, <1>2 DEF Reviewed, Registered, AppendTrue, Settled
<1>6. QED
  BY <1>2, <1>4, <1>5 DEF Reviewed

(* The evidence a custodian may refer to is all that the run has left. *)
LEMMA OnlyEvidence ==
  ASSUME Reviewed, NEW ref \in References, NEW x \in EvidenceFor(ref)
  PROVE  /\ ref.run \in Runs /\ job[ref.run].status \in Ended
         /\ job[ref.run] \in Jobs
         /\ x \in artifacts /\ x.run = ref.run
         /\ \A y \in artifacts : y.run = ref.run => y = x
<1>1. ref.run \in Runs /\ job[ref.run].status \in Ended /\ ref.id = job[ref.run].input.id
  BY DEF References
<1>2. job[ref.run] \in Jobs
  <2>1. job[ref.run].status # "idle"
    BY <1>1 DEF Ended
  <2>2. PICK r : r = ref.run
    OBVIOUS
  <2>3. job[r] \in Jobs
    BY <1>1, <2>1, <2>2, Dispatched
  <2>4. QED
    BY <2>2, <2>3
<1> DEFINE named == {y \in artifacts : y.run = ref.run /\ y.id = ref.id}
<1>3. x \in named /\ Cardinality(named) = 1
  BY DEF EvidenceFor
<1>4. IsFiniteSet(artifacts) /\ named \subseteq artifacts
  BY DEF Reviewed, ArtifactsTrue
<1>5. \A y \in artifacts : y.run = ref.run => y \in named
  BY <1>1 DEF Reviewed, ArtifactsTrue, ArtifactTrue
<1>6. x \in artifacts /\ x.run = ref.run
  BY <1>3
<1> HIDE DEF named
<1>7. IsFiniteSet(named)
  BY <1>4, FS_Subset
<1>8. PICK only : named = {only}
  BY <1>3, <1>7, FS_Singleton
<1>9. QED
  BY <1>1, <1>2, <1>3, <1>5, <1>6, <1>8

(* What an append finds is all that the run has published. *)
LEMMA ResolveEvidenceStep ==
  ASSUME Reviewed, ResolveEvidence
  PROVE  Reviewed'
<1>1. /\ UNCHANGED events /\ UNCHANGED main /\ UNCHANGED job /\ UNCHANGED artifacts
      /\ UNCHANGED sealed
  BY DEF ResolveEvidence, evidence
<1>2. PICK ref \in References : \E x \in EvidenceFor(ref) : \E k \in DOMAIN x.results :
        append' = [base |-> main, run |-> ref.run, attempt |-> x.attempt,
                   result |-> x.results[k]]
  BY DEF ResolveEvidence
<1>3. PICK x \in EvidenceFor(ref) : \E k \in DOMAIN x.results :
        append' = [base |-> main, run |-> ref.run, attempt |-> x.attempt,
                   result |-> x.results[k]]
  BY <1>2
<1>4. PICK k \in DOMAIN x.results :
        append' = [base |-> main, run |-> ref.run, attempt |-> x.attempt,
                   result |-> x.results[k]]
  BY <1>3
<1>5. PICK y : y = append'
  OBVIOUS
<1>6. y.run = ref.run /\ y.attempt = x.attempt /\ y.result = x.results[k]
  BY <1>4, <1>5
<1>7. /\ ref.run \in Runs /\ job[ref.run].status \in Ended /\ job[ref.run] \in Jobs
      /\ x \in artifacts /\ x.run = ref.run
      /\ \A z \in artifacts : z.run = ref.run => z = x
  BY OnlyEvidence
<1>8. ArtifactTrue(x)
  BY <1>7 DEF Reviewed, ArtifactsTrue
<1>9. x.attempt \in Nat /\ x.attempt <= job[ref.run].attempt /\ Reconciled(x.results[k])
  BY <1>7, <1>8 DEF ArtifactTrue
<1>10. y.result \in S!Range(x.results)
  BY <1>6 DEF S!Range
<1>11. Settled(y)
  BY <1>6, <1>7, <1>9, <1>10 DEF Settled
<1>12. Settled(append')
  BY <1>5, <1>11
<1>13. AppendTrue'
  BY <1>1, <1>12 DEF AppendTrue, Settled
<1>14. Registered' /\ JobsTrue' /\ ArtifactsTrue' /\ SealsTrue'
  BY <1>1 DEF Reviewed, Registered, JobsTrue, ArtifactsTrue, ArtifactTrue, SealsTrue,
     SealTrue, SealsApart, Settled, PastPin
<1>15. QED
  BY <1>13, <1>14 DEF Reviewed

LEMMA DropAppendStep ==
  ASSUME Reviewed, DropAppend
  PROVE  Reviewed'
<1>1. /\ UNCHANGED events /\ UNCHANGED main /\ UNCHANGED job /\ UNCHANGED artifacts
      /\ UNCHANGED sealed /\ append' = None
  BY DEF DropAppend, evidence
<1>2. Registered' /\ JobsTrue' /\ ArtifactsTrue' /\ SealsTrue'
  BY <1>1 DEF Reviewed, Registered, JobsTrue, ArtifactsTrue, ArtifactTrue, SealsTrue,
     SealTrue, SealsApart, Settled, PastPin
<1>3. AppendTrue'
  BY <1>1 DEF AppendTrue
<1>4. QED
  BY <1>2, <1>3 DEF Reviewed

(* A push seals what the append has evidence of and moves main past the    *)
(* commit of the run.                                                      *)
LEMMA PushReviewStep ==
  ASSUME Reviewed, PushReview
  PROVE  Reviewed'
<1>1. PICK now \in Time :
        LET e == Stamp(events, DerivedReview(append.result), now) IN
        EventOk(events, e) /\ events' = Append(events, e)
  BY DEF PushReview
<1>2. PICK e : e = Stamp(events, DerivedReview(append.result), now)
  OBVIOUS
<1>3. PICK new : new = [event |-> Len(events) + 1, run |-> append.run,
                        attempt |-> append.attempt, last |-> job[append.run].attempt,
                        result |-> append.result]
  OBVIOUS
<1>4. /\ EventOk(events, e) /\ events' = Append(events, e) /\ main' = main + 1
      /\ sealed' = sealed \cup {new} /\ append' = None
      /\ UNCHANGED job /\ UNCHANGED artifacts
  BY <1>1, <1>2, <1>3 DEF PushReview, evidence
<1>5. /\ new.event = Len(events) + 1 /\ new.run = append.run
      /\ new.attempt = append.attempt /\ new.result = append.result
      /\ new.last = job[append.run].attempt
  BY <1>3
<1>6. e.eventType = "review-seal" /\ e.payload.aliases = new.result.aliases
  BY <1>2, <1>5 DEF Stamp, DerivedReview
<1>7. PropertyUnreviewed(events, e)
  BY <1>4, <1>6 DEF EventOk, TypeSpecificOk, ReviewSealOk
<1>8. main' \in Nat /\ JobsTrue' /\ ArtifactsTrue'
  BY <1>4, MainMoves
<1>9. /\ Recorded(events')
      /\ Len(events) \in Nat /\ DOMAIN events = 1 .. Len(events)
      /\ DOMAIN events' = 1 .. Len(events) + 1
      /\ events'[Len(events) + 1] = e
      /\ \A i \in DOMAIN events : events'[i] = events[i]
  <2>1. Recorded(events)
    BY DEF Reviewed, Registered
  <2>2. /\ Recorded(Append(events, e))
        /\ Len(events) \in Nat /\ DOMAIN events = 1 .. Len(events)
        /\ DOMAIN Append(events, e) = 1 .. Len(events) + 1
        /\ Append(events, e)[Len(events) + 1] = e
        /\ \A i \in DOMAIN events : Append(events, e)[i] = events[i]
    BY <2>1, RecordedSeq
  <2>3. events' = Append(events, e)
    BY <1>4
  <2>4. QED
    BY <2>2, <2>3
<1>10. \A s \in sealed : SealTrue(s)'
  <2>1. \A i \in DOMAIN events : i \in DOMAIN events' /\ events'[i] = events[i]
    BY <1>9
  <2>2. QED
    BY <1>4, <2>1, SealsStay
<1>11. SealTrue(new)'
  <2>1. Settled(append)
    BY DEF PushReview, Reviewed, AppendTrue
  <2>2. Settled(new)
    BY <1>5, <2>1 DEF Settled
  <2>3. Settled(new)'
    BY <1>4, <2>2, SettledUnmoved
  <2>4. new.run \in Runs /\ job[new.run] \in Jobs
    BY <2>2 DEF Settled
  <2>5. job[new.run].attempt \in Nat
    BY <2>4, ReviewAssumption DEF Jobs
  <2>6. job[new.run].sha < main'
    <3>1. job[new.run].sha \in Nat /\ main \in Nat
      BY <2>4 DEF Jobs, Reviewed, Registered
    <3>2. job[new.run].sha <= main
      BY <2>4 DEF Reviewed, JobsTrue, JobTrue
    <3>3. QED
      BY <1>4, <3>1, <3>2
  <2>7. \A x \in artifacts : x.run = new.run => x.attempt <= new.last
    BY <1>5 DEF Reviewed, ArtifactsTrue, ArtifactTrue
  <2>8. Len(events) + 1 \in DOMAIN events'
    BY <1>9
  <2>9. new.last \in Nat /\ new.last <= job[new.run].attempt
        /\ job[new.run].attempt = new.last
    BY <1>5, <2>5
  <2>10. QED
    BY <1>4, <1>5, <1>6, <1>9, <2>3, <2>6, <2>7, <2>8, <2>9 DEF SealTrue, PastPin
<1>12. \A s \in sealed : s.result.aliases \cap new.result.aliases = {}
  <2>1. SUFFICES ASSUME NEW s \in sealed
                 PROVE  s.result.aliases \cap new.result.aliases = {}
    OBVIOUS
  <2>2. /\ s.event \in DOMAIN events /\ events[s.event].eventType = "review-seal"
        /\ events[s.event].payload.aliases = s.result.aliases
    BY DEF Reviewed, SealsTrue, SealTrue
  <2>3. QED
    BY <1>6, <1>7, <2>2 DEF PropertyUnreviewed, EventsOf
<1>13. SealsApart'
  <2>1. SUFFICES ASSUME NEW s \in sealed', NEW t \in sealed', s.event # t.event
                 PROVE  s.result.aliases \cap t.result.aliases = {}
    BY DEF SealsApart
  <2>2. CASE s \in sealed /\ t \in sealed
    BY <2>1, <2>2 DEF Reviewed, SealsTrue, SealsApart
  <2>3. CASE s = new \/ t = new
    BY <1>4, <1>12, <2>1, <2>3
  <2>4. QED
    BY <1>4, <2>2, <2>3
<1>14. AppendTrue'
  BY <1>4 DEF AppendTrue
<1>15. QED
  BY <1>4, <1>8, <1>9, <1>10, <1>11, <1>13, <1>14 DEF Reviewed, Registered, SealsTrue

LEMMA NextReviewed == Reviewed /\ [Next]_vars => Reviewed'
<1> SUFFICES ASSUME Reviewed, [Next]_vars PROVE Reviewed'
  OBVIOUS
<1>1. ASSUME NEW r \in Runs, Step(r) PROVE Reviewed'
  BY <1>1, PinStep, VerifySourceStep, AskStep, ReconcileStep, BuildIndexStep, AttestStep,
     UploadStep, ConcludeStep DEF Step
<1>2. ASSUME NEW r \in Runs, Dispatch(r) \/ Rerun(r) \/ Start(r) \/ Interrupt(r)
      PROVE  Reviewed'
  BY <1>2, DispatchStep, RerunStep, StartStep, InterruptStep
<1>3. CASE ResolveEvidence \/ PushReview \/ DropAppend
  BY <1>3, ResolveEvidenceStep, PushReviewStep, DropAppendStep
<1>4. CASE MergeCode
  BY <1>4, MergeCodeStep
<1>5. CASE UNCHANGED vars
  <2>1. /\ UNCHANGED events /\ UNCHANGED main /\ UNCHANGED append /\ UNCHANGED job
        /\ UNCHANGED attested /\ UNCHANGED artifacts /\ UNCHANGED sealed
    BY <1>5 DEF vars, registry, evidence
  <2>2. Registered' /\ JobsTrue' /\ ArtifactsTrue'
    BY <2>1 DEF Reviewed, Registered, JobsTrue, ArtifactsTrue, ArtifactTrue
  <2>3. AppendTrue' /\ SealsTrue'
    BY <2>1 DEF Reviewed, AppendTrue, SealsTrue, SealTrue, SealsApart, Settled, PastPin
  <2>4. QED
    BY <2>2, <2>3 DEF Reviewed
<1>6. QED
  BY <1>1, <1>2, <1>3, <1>4, <1>5 DEF Next

(* The reviewer keeps to what its models said, in every behaviour. *)
THEOREM ReviewKept == Spec => []Reviewed
BY InitReviewed, NextReviewed, PTL DEF Spec

(* The type invariant: calls stay below their limit, and a job that writes *)
(* its index has a result for each case of its request (the loops of       *)
(* protected-refusal-reviewer.mjs).                                        *)
THEOREM ReviewsTyped == Spec => []TypeOK
<1>1. Reviewed => TypeOK
  <2> SUFFICES ASSUME Reviewed PROVE TypeOK
    OBVIOUS
  <2>1. main \in Nat
    BY DEF Reviewed, Registered
  <2>2. ASSUME NEW r \in Runs, job[r] # Idle
        PROVE  /\ job[r].status \in Ended \cup {"pending", "running"}
               /\ job[r].step \in {"pin", "source", "ask", "index", "attest", "upload", "conclude"}
               /\ job[r].input \in Inputs /\ job[r].attempt \in 1 .. MaxAttempts
               /\ job[r].sha \in Nat /\ job[r].policy \in Nat
               /\ job[r].calls \in 0 .. MaxCalls - 1
               /\ Len(job[r].heard) <= 2
               /\ S!Range(job[r].heard) \subseteq Heard
               /\ job[r].step \in {"index", "attest", "upload", "conclude"} =>
                    Len(job[r].results) = Len(job[r].input.cases)
    <3>1. job[r] \in Jobs /\ JobTrue(job[r], main)
      BY <2>2 DEF Reviewed, JobsTrue
    <3>2. /\ job[r].status \in Ended \cup {"pending", "running"} /\ job[r].step \in Steps
          /\ job[r].input \in Inputs /\ job[r].attempt \in 1 .. MaxAttempts
          /\ job[r].sha \in Nat /\ job[r].policy \in Nat
          /\ job[r].calls \in 0 .. MaxCalls - 1
      BY <3>1 DEF Jobs
    <3>3. job[r].heard \in Seq(Heard)
      BY <3>1 DEF Jobs
    <3>4. S!Range(job[r].heard) \subseteq Heard
      BY <3>3, LenProperties, ElementOfSeq DEF S!Range
    <3>5. Len(job[r].heard) <= 2
      BY <3>1 DEF JobTrue
    <3>6. job[r].step \in LateSteps => Len(job[r].results) = Len(job[r].input.cases)
      BY <3>1 DEF JobTrue
    <3>7. QED
      BY <3>2, <3>4, <3>5, <3>6 DEF Steps, LateSteps
  <2>3. QED
    BY <2>1, <2>2 DEF TypeOK, Idle
<1>2. QED
  BY <1>1, ReviewKept, PTL

(* However a run is repeated while its review is sealed, it published       *)
(* nothing before the sealed index, and no attempt begun after the push     *)
(* ever publishes (append-encrypted-registry.yml:82, the pin of main).      *)
THEOREM NothingPublishedBehindSeals == Spec => []NoEvidenceBehindSeal
<1>1. Reviewed => NoEvidenceBehindSeal
  <2> SUFFICES ASSUME Reviewed, NEW s \in sealed, NEW x \in artifacts, x.run = s.run
               PROVE  /\ x.attempt \in s.attempt .. s.last
                      /\ x.attempt = s.attempt => s.result \in S!Range(x.results)
    BY DEF NoEvidenceBehindSeal
  <2>1. SealTrue(s) /\ ArtifactTrue(x)
    BY DEF Reviewed, SealsTrue, ArtifactsTrue
  <2>2. /\ x.attempt \in Nat /\ s.attempt \in Nat /\ s.last \in Nat
        /\ s.attempt <= x.attempt /\ x.attempt <= s.last
        /\ x.attempt = s.attempt => s.result \in S!Range(x.results)
    BY <2>1 DEF SealTrue, Settled, ArtifactTrue
  <2>3. QED
    BY <2>2
<1>2. QED
  BY <1>1, ReviewKept, PTL

-----------------------------------------------------------------------------
(* What two readings that are read as they are meant agree on.             *)

Read(reading, f) == Canonical(f, reading.text[f])

(* An alias of what two readings agree on: both mean each field of it. *)
LEMMA AliasMeant ==
  ASSUME ReadAsMeant(Readings), NEW l \in Readings, NEW m \in Readings,
         NEW a \in Aliases(AgreedIdentity(l.text, m.text))
  PROVE  /\ a.kind \in DOMAIN AliasFields
         /\ Says(l, a.kind) = Says(m, a.kind)
         /\ \A n \in DOMAIN Says(l, a.kind) : Says(l, a.kind)[n] # None
<1>1. PICK identity : identity = AgreedIdentity(l.text, m.text)
  OBVIOUS
<1>2. PICK kind \in DOMAIN AliasFields :
        /\ \A n \in DOMAIN AliasFields[kind] :
             Canonical(AliasFields[kind][n], identity[AliasFields[kind][n]]) # <<>>
        /\ a.kind = kind
  BY <1>1 DEF Aliases
<1>3. ASSUME NEW n \in DOMAIN AliasFields[kind]
      PROVE  /\ l.says[AliasFields[kind][n]] = m.says[AliasFields[kind][n]]
             /\ l.says[AliasFields[kind][n]] # None
  <2>1. PICK f : f = AliasFields[kind][n]
    OBVIOUS
  <2>2. f \in IdentityKinds
    BY <2>1, AliasFieldsKnown
  <2>3. identity[f] = IF Read(l, f) = Read(m, f) THEN Read(l, f) ELSE <<>>
    BY <1>1, <2>2 DEF AgreedIdentity, Read
  <2>4. Canonical(f, identity[f]) # <<>> /\ Canonical(f, <<>>) = <<>>
    BY <1>2, <2>1, <2>2 DEF ReadAsMeant
  <2>5. identity[f] # <<>>
    BY <2>4
  <2>6. Read(l, f) = Read(m, f) /\ Read(l, f) # <<>>
    BY <2>3, <2>5
  <2>7. /\ (Read(l, f) = <<>>) <=> (l.says[f] = None)
        /\ (Read(l, f) = Read(m, f)) <=> (l.says[f] = m.says[f])
    BY <2>2 DEF ReadAsMeant, Read
  <2>8. QED
    BY <2>1, <2>6, <2>7
<1>4. QED
  BY <1>2, <1>3 DEF Says

(* Two pairs of readings that all mean one property by a kind of alias     *)
(* agree on the same alias of that kind.                                   *)
LEMMA SameAlias ==
  ASSUME ReadAsMeant(Readings), NEW kind \in DOMAIN AliasFields,
         NEW l \in Readings, NEW m \in Readings, NEW l2 \in Readings, NEW m2 \in Readings,
         Says(l, kind) = Says(m, kind), Says(l, kind) = Says(l2, kind),
         Says(l, kind) = Says(m2, kind),
         \A n \in DOMAIN Says(l, kind) : Says(l, kind)[n] # None
  PROVE  Aliases(AgreedIdentity(l.text, m.text))
           \cap Aliases(AgreedIdentity(l2.text, m2.text)) # {}
<1> DEFINE of == [n \in DOMAIN AliasFields[kind] |-> Read(l, AliasFields[kind][n])]
<1>1. ASSUME NEW n \in DOMAIN AliasFields[kind], NEW f, f = AliasFields[kind][n]
      PROVE  /\ Read(l, f) # <<>> /\ Canonical(f, Read(l, f)) = Read(l, f)
             /\ Read(m, f) = Read(l, f) /\ Read(l2, f) = Read(l, f)
             /\ Read(m2, f) = Read(l, f)
             /\ f \in IdentityKinds
  <2>1. f \in IdentityKinds
    BY <1>1, AliasFieldsKnown
  <2>2. /\ l.says[f] = m.says[f] /\ l.says[f] = l2.says[f] /\ l.says[f] = m2.says[f]
        /\ l.says[f] # None
    <3>1. \A reading : Says(reading, kind)[n] = reading.says[f]
      BY <1>1 DEF Says
    <3>2. DOMAIN Says(l, kind) = DOMAIN AliasFields[kind]
      BY DEF Says
    <3>3. Says(l, kind)[n] # None
      BY <3>2
    <3>4. QED
      BY <3>1, <3>3
  <2>3. ASSUME NEW reading \in Readings
        PROVE  /\ (Read(l, f) = <<>>) <=> (l.says[f] = None)
               /\ (Read(l, f) = Read(reading, f)) <=> (l.says[f] = reading.says[f])
               /\ Canonical(f, Read(l, f)) = Read(l, f)
    BY <2>1 DEF ReadAsMeant, Read
  <2>4. QED
    BY <2>1, <2>2, <2>3
<1>2. ASSUME NEW p \in Readings, NEW q \in Readings,
             \A n \in DOMAIN AliasFields[kind] :
               /\ Read(p, AliasFields[kind][n]) = Read(l, AliasFields[kind][n])
               /\ Read(q, AliasFields[kind][n]) = Read(l, AliasFields[kind][n])
      PROVE  [kind |-> kind, of |-> of] \in Aliases(AgreedIdentity(p.text, q.text))
  <2>1. PICK identity : identity = AgreedIdentity(p.text, q.text)
    OBVIOUS
  <2>2. ASSUME NEW n \in DOMAIN AliasFields[kind]
        PROVE  /\ Canonical(AliasFields[kind][n], identity[AliasFields[kind][n]]) = of[n]
               /\ of[n] # <<>>
    <3>1. PICK f : f = AliasFields[kind][n]
      OBVIOUS
    <3>2. /\ Read(l, f) # <<>> /\ Canonical(f, Read(l, f)) = Read(l, f)
          /\ f \in IdentityKinds
      BY <1>1, <3>1
    <3>3. identity[f] = IF Read(p, f) = Read(q, f) THEN Read(p, f) ELSE <<>>
      BY <2>1, <3>2 DEF AgreedIdentity, Read
    <3>4. Read(p, f) = Read(l, f) /\ Read(q, f) = Read(l, f)
      BY <1>2, <3>1
    <3>5. of[n] = Read(l, f)
      BY <3>1
    <3>6. QED
      BY <3>1, <3>2, <3>3, <3>4, <3>5
  <2>3. of = [n \in DOMAIN AliasFields[kind] |->
                Canonical(AliasFields[kind][n], identity[AliasFields[kind][n]])]
    BY <2>2
  <2> HIDE DEF of
  <2>4. [kind |-> kind, of |-> of] \in Aliases(identity)
    BY <2>2, <2>3 DEF Aliases
  <2>5. QED
    BY <2>1, <2>4
<1> HIDE DEF of
<1>3. [kind |-> kind, of |-> of] \in Aliases(AgreedIdentity(l.text, m.text))
  BY <1>1, <1>2
<1>4. [kind |-> kind, of |-> of] \in Aliases(AgreedIdentity(l2.text, m2.text))
  BY <1>1, <1>2
<1>5. QED
  BY <1>3, <1>4

(* What a sealed review was heard as. *)
LEMMA SealHeard ==
  ASSUME Reviewed, NEW s \in sealed, NEW l, NEW m,
         l = s.result.heard[1].reading, m = s.result.heard[2].reading
  PROVE  /\ l \in Readings /\ m \in Readings
         /\ s.result.heard[1].model # s.result.heard[2].model
         /\ Reconcilable(l.text, m.text)
         /\ s.result.aliases = Aliases(AgreedIdentity(l.text, m.text))
         /\ events[s.event].payload.aliases = s.result.aliases
<1>1. Reconciled(s.result) /\ events[s.event].payload.aliases = s.result.aliases
  BY DEF Reviewed, SealsTrue, SealTrue, Settled
<1>2. PICK heard : heard = s.result.heard
  OBVIOUS
<1>3. /\ heard \in Seq(Heard) /\ Len(heard) = 2 /\ Distinct(heard)
      /\ AgreementOf(heard).reconciled
      /\ s.result.aliases = AgreementOf(heard).aliases
  BY <1>1, <1>2 DEF Reconciled, Results
<1>4. heard[1] \in Heard /\ heard[2] \in Heard
  <2>1. ASSUME NEW n \in 1 .. Len(heard) PROVE heard[n] \in Heard
    BY <1>3, ElementOfSeq
  <2>2. 1 \in 1 .. Len(heard) /\ 2 \in 1 .. Len(heard)
    BY <1>3
  <2>3. QED
    BY <2>1, <2>2
<1>5. l \in Readings /\ m \in Readings
  BY <1>2, <1>4 DEF Heard
<1>6. AgreementOf(heard) = Agreement[l][m]
  BY <1>2 DEF AgreementOf
<1>7. /\ Agreement[l][m].reconciled = Reconcilable(l.text, m.text)
      /\ Agreement[l][m].aliases = Aliases(AgreedIdentity(l.text, m.text))
  BY <1>5, AgreementKnown
<1>8. Reconcilable(l.text, m.text)
  BY <1>3, <1>6, <1>7
<1>9. s.result.aliases = Aliases(AgreedIdentity(l.text, m.text))
  BY <1>3, <1>6, <1>7
<1>10. s.result.heard[1].model # s.result.heard[2].model
  BY <1>2, <1>3 DEF Distinct
<1>11. QED
  BY <1>1, <1>5, <1>8, <1>9, <1>10

(* A sealed review says what two different models saw: every alias is meant *)
(* by both and they differ on no identifier that both describe             *)
(* (reconcilePropertyIdentity), as far as readings are read as meant.      *)
THEOREM SealedReviewsSayWhatWasSeen ==
  ASSUME ReadAsMeant(Readings)
  PROVE  Spec => []SealedReviewsAgreed
<1>1. Reviewed => SealedReviewsAgreed
  <2> SUFFICES ASSUME Reviewed, NEW s \in sealed
               PROVE  LET first == s.result.heard[1]  second == s.result.heard[2] IN
                      /\ first.model # second.model
                      /\ \A a \in events[s.event].payload.aliases : MeantBy(s.result, a.kind) # {}
                      /\ \A f \in Stronger :
                           None \in {first.reading.says[f], second.reading.says[f]}
                             \/ first.reading.says[f] = second.reading.says[f]
    BY DEF SealedReviewsAgreed
  <2>1. PICK l, m : l = s.result.heard[1].reading /\ m = s.result.heard[2].reading
    OBVIOUS
  <2>2. /\ l \in Readings /\ m \in Readings
        /\ s.result.heard[1].model # s.result.heard[2].model
        /\ Reconcilable(l.text, m.text)
        /\ events[s.event].payload.aliases = Aliases(AgreedIdentity(l.text, m.text))
    BY <2>1, SealHeard
  <2>3. ASSUME NEW a \in events[s.event].payload.aliases PROVE MeantBy(s.result, a.kind) # {}
    <3>1. /\ Says(l, a.kind) = Says(m, a.kind)
          /\ \A n \in DOMAIN Says(l, a.kind) : Says(l, a.kind)[n] # None
      BY <2>2, <2>3, AliasMeant
    <3>2. Says(l, a.kind) \in MeantBy(s.result, a.kind)
      BY <2>1, <3>1 DEF MeantBy
    <3>3. QED
      BY <3>2
  <2>4. ASSUME NEW f \in Stronger
        PROVE  None \in {l.says[f], m.says[f]} \/ l.says[f] = m.says[f]
    <3>1. f \in IdentityKinds
      BY DEF Stronger
    <3>2. Read(l, f) = <<>> \/ Read(m, f) = <<>> \/ Read(l, f) = Read(m, f)
      BY <2>2, <2>4 DEF Reconcilable, Conflicting, Read
    <3>3. /\ (Read(l, f) = <<>>) <=> (l.says[f] = None)
          /\ (Read(m, f) = <<>>) <=> (m.says[f] = None)
          /\ (Read(l, f) = Read(m, f)) <=> (l.says[f] = m.says[f])
      BY <2>2, <3>1 DEF ReadAsMeant, Read
    <3>4. QED
      BY <3>2, <3>3
  <2>5. QED
    BY <2>1, <2>2, <2>3, <2>4
<1>2. QED
  BY <1>1, ReviewKept, PTL

(* One property supports one refusal: reviews of different cases are never *)
(* sealed of properties that share all fields of one kind of alias         *)
(* (README.md:335-337), as far as readings are read as meant.              *)
THEOREM PropertiesSealedOnce ==
  ASSUME ReadAsMeant(Readings)
  PROVE  Spec => []SharedGroupsRefused
<1>1. Reviewed => SharedGroupsRefused
  <2> SUFFICES ASSUME Reviewed, NEW s \in sealed, NEW t \in sealed, s.event # t.event,
                      NEW kind \in DOMAIN AliasFields,
                      NEW said \in MeantBy(s.result, kind) \cap MeantBy(t.result, kind)
               PROVE  FALSE
    BY DEF SharedGroupsRefused
  <2>1. PICK l, m : l = s.result.heard[1].reading /\ m = s.result.heard[2].reading
    OBVIOUS
  <2>2. PICK l2, m2 : l2 = t.result.heard[1].reading /\ m2 = t.result.heard[2].reading
    OBVIOUS
  <2>3. /\ l \in Readings /\ m \in Readings
        /\ s.result.aliases = Aliases(AgreedIdentity(l.text, m.text))
    BY <2>1, SealHeard
  <2>4. /\ l2 \in Readings /\ m2 \in Readings
        /\ t.result.aliases = Aliases(AgreedIdentity(l2.text, m2.text))
    BY <2>2, SealHeard
  <2>5. /\ said = Says(l, kind) /\ said = Says(m, kind)
        /\ said = Says(l2, kind) /\ said = Says(m2, kind)
        /\ \A n \in DOMAIN said : said[n] # None
    BY <2>1, <2>2 DEF MeantBy
  <2>6. s.result.aliases \cap t.result.aliases # {}
    BY <2>3, <2>4, <2>5, SameAlias
  <2>7. QED
    BY <2>6 DEF Reviewed, SealsTrue, SealsApart
<1>2. QED
  BY <1>1, ReviewKept, PTL

-----------------------------------------------------------------------------
(* What the registry's own rules add to the reviews.  The event data that   *)
(* is derived from evidence is a well-formed request.                       *)
LEMMA DerivedIsRequest ==
  ASSUME NEW x, Reconciled(x)
  PROVE  DerivedReview(x) \in Request
<1>1. /\ x.candidate \in Candidates
      /\ \E l, m \in Readings : x.aliases = Agreement[l][m].aliases
  BY DEF Reconciled, Results
<1>2. x.aliases \subseteq Values
  BY <1>1, AgreementKnown, ReviewAssumption
<1>3. Distinct(x.heard) \in BOOLEAN
  BY DEF Distinct
<1>4. DerivedReview(x).payload \in ReviewPayload
  BY <1>1, <1>2, <1>3 DEF DerivedReview, Candidates, ReviewPayload
<1>5. DerivedReview(x) \in RequestsOfType("review-seal")
  BY <1>1, <1>4 DEF DerivedReview, Candidates, RequestsOfType, RequestPayloadOf, PayloadOf
<1>6. QED
  BY <1>5 DEF Request

HistoryValid == events \in Seq(Event) /\ RegistryValid(events)

(* A review is sealed as the validator accepts it; no other step appends.   *)
LEMMA HistoryNext ==
  ASSUME Reviewed, HistoryValid, [Next]_vars
  PROVE  HistoryValid'
<1>1. CASE PushReview
  <2>1. PICK now \in Time :
          LET e == Stamp(events, DerivedReview(append.result), now) IN
          EventOk(events, e) /\ events' = Append(events, e)
    BY <1>1 DEF PushReview
  <2>2. Reconciled(append.result)
    BY <1>1 DEF PushReview, Reviewed, AppendTrue, Settled
  <2>3. DerivedReview(append.result) \in Request /\ now \in Nat
    BY <2>2, DerivedIsRequest, ReviewAssumption
  <2>4. PICK e : e = Stamp(events, DerivedReview(append.result), now)
    OBVIOUS
  <2>5. e \in Event /\ EventOk(events, e) /\ events' = Append(events, e)
    BY <2>1, <2>3, <2>4, StampIsEvent DEF HistoryValid
  <2>6. QED
    BY <2>5, AppendKeepsValid, AppendProperties DEF HistoryValid
<1>2. ASSUME NEW r \in Runs, Step(r) PROVE UNCHANGED events
  BY <1>2 DEF Step, Pin, VerifySource, Ask, Approve, Retry, Reconcile, BuildIndex, Attest,
     Upload, Conclude, Proceed, Fail, registry
<1>3. ASSUME \/ \E r \in Runs : Dispatch(r) \/ Rerun(r) \/ Start(r) \/ Interrupt(r)
             \/ ResolveEvidence \/ DropAppend \/ MergeCode \/ UNCHANGED vars
      PROVE  UNCHANGED events
  BY <1>3 DEF Dispatch, Rerun, Start, Interrupt, Fail, ResolveEvidence, DropAppend,
     MergeCode, registry, vars
<1>4. QED
  BY <1>1, <1>2, <1>3 DEF Next, HistoryValid

(* However reviews are lost, repeated and raced, the history they are       *)
(* sealed into keeps every promise of the registry (CustodyHolds).          *)
THEOREM ReviewedUnderCustody == Spec => []CustodyHolds(events)
<1>1. Init => HistoryValid
  BY ReviewAssumption DEF Init, HistoryValid
<1>2. Reviewed /\ HistoryValid /\ [Next]_vars => HistoryValid'
  BY HistoryNext
<1>3. HistoryValid => CustodyHolds(events)
  BY ValidHistoriesHold DEF HistoryValid
<1>4. QED
  BY <1>1, <1>2, <1>3, ReviewKept, PTL DEF Spec

===============================================================================
