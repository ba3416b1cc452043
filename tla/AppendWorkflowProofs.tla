------------------------- MODULE AppendWorkflowProofs -------------------------
(***************************************************************************)
(* Theorems about the protected append, for every set of runs, requests,   *)
(* clocks and limits.  The inductive invariant Custody says what each run  *)
(* that got past a step has in its hands, that every receipt tells of the  *)
(* append its run made on the tip it was pinned to, and that everything on *)
(* main beyond the genesis was receipted first.                            *)
(***************************************************************************)
EXTENDS AppendWorkflow, CorpusHistoryProofs

-----------------------------------------------------------------------------
(* A receipt of an append is about the event its request became on the     *)
(* index of the commit the run was pinned to, at the time it carries.      *)
AppendTrue(r) ==
  LET prior == main[r.signer]
      log   == Registry(prior)
      env   == Last(r.index)
      e     == Stamp(log, r.request.eventData, env.issuedAt)
  IN /\ r.index = Append(prior, env)
     /\ env = Envelope(Append(log, e), env.issuedAt, r.run, r.attempt)
     /\ env.issuedAt \in Time
     /\ Len(log) < MaxEvents /\ EventOk(log, e)
     /\ Last(prior).issuedAt <= env.issuedAt
     /\ r.request.expected = prior

(* What an attempt has in its hands after each step. *)
RunTrue(i) ==
  run[i].status # "idle" =>
    /\ run[i].sha \in DOMAIN main
    /\ run[i].step \in {"attest", "commit", "pushed"} =>
         /\ run[i].outcome \in {"appended", "rejected"}
         /\ run[i].outcome = "appended" => AppendTrue(Receipt(i, run[i].index))
    /\ run[i].step \in {"commit", "pushed"} => Receipt(i, run[i].index) \in receipts
    /\ run[i].step = "pushed" =>
         \E n \in DOMAIN Last(main) :
           <<Last(main)[n].run, Last(main)[n].attempt>> = <<i, run[i].attempt>>

(* A receipt is the only one of its attempt and tells the truth. *)
ReceiptTrue(r) ==
  /\ r.run \in Runs /\ run[r.run].status # "idle"
  /\ r.attempt \in Nat /\ r.attempt <= run[r.run].attempt
  /\ r.attempt = run[r.run].attempt => run[r.run].step \in {"commit", "pushed"}
  /\ r.signer = run[r.run].sha /\ r.request = run[r.run].request
  /\ r.index \in Seq(Envelopes)
  /\ r.outcome = "appended" => AppendTrue(r)
  /\ \A q \in receipts : q.run = r.run /\ q.attempt = r.attempt => q = r

(* Some receipt tells of the first m envelopes of an index, and that they   *)
(* were committed right after its signer's commit.                         *)
Receipted(index, m) ==
  \E r \in receipts :
    /\ r.outcome = "appended" /\ r.index = SubSeq(index, 1, m)
    /\ r.signer + 1 \in DOMAIN main /\ main[r.signer + 1] = r.index

IndexTrue(n) ==
  /\ main[n] # <<>> /\ main[n][1] = GenesisIndex[1]
  /\ \A m \in 2 .. Len(main[n]) : Receipted(main[n], m)

(* The concurrency group holds one running and one pending run. *)
OneEach ==
  \A i, j \in Runs :
    run[i].status \in Waiting /\ run[j].status = run[i].status => i = j

Custody ==
  /\ TypeOK
  /\ OneEach
  /\ main # <<>>
  /\ \A i \in Runs : RunTrue(i)
  /\ \A r \in receipts : ReceiptTrue(r)
  /\ \A n \in DOMAIN main : IndexTrue(n)
  /\ SuccessMeansCommitted

-----------------------------------------------------------------------------
(* Sequences. *)
LEMMA LastOfSeq ==
  ASSUME NEW S, NEW s \in Seq(S), s # <<>>
  PROVE  Len(s) \in DOMAIN s /\ Last(s) = s[Len(s)] /\ Last(s) \in S
<1>1. Len(s) \in Nat \ {0} /\ DOMAIN s = 1 .. Len(s)
  BY EmptySeq, LenProperties
<1>2. QED
  BY <1>1, ElementOfSeq DEF Last

(* What a prefix of a sequence is. *)
LEMMA SubSeqOfSeq ==
  ASSUME NEW S, NEW s \in Seq(S), NEW m \in 0 .. Len(s)
  PROVE  /\ SubSeq(s, 1, m) \in Seq(S) /\ Len(SubSeq(s, 1, m)) = m
         /\ \A j \in 1 .. m : SubSeq(s, 1, m)[j] = s[j]
<1>1. m \in Int /\ 1 \in Int /\ \A j \in 1 .. m : s[j] \in S
  BY ElementOfSeq, LenProperties
<1>2. /\ SubSeq(s, 1, m) \in Seq(S)
      /\ Len(SubSeq(s, 1, m)) = IF 1 <= m THEN m - 1 + 1 ELSE 0
      /\ \A j \in 1 .. (m - 1 + 1) : SubSeq(s, 1, m)[j] = s[1 + j - 1]
  BY <1>1, SubSeqProperties
<1>3. QED
  BY <1>1, <1>2, LenProperties

(* What a sequence is after one more element. *)
LEMMA OfAppend ==
  ASSUME NEW S, NEW s \in Seq(S), NEW x \in S
  PROVE  /\ Append(s, x) \in Seq(S) /\ Append(s, x) # <<>>
         /\ Len(Append(s, x)) = Len(s) + 1
         /\ Last(Append(s, x)) = x /\ Front(Append(s, x)) = s
         /\ \A m \in 1 .. Len(s) :
              Append(s, x)[m] = s[m] /\ SubSeq(Append(s, x), 1, m) = SubSeq(s, 1, m)
<1> DEFINE t == Append(s, x)
<1>1. /\ t \in Seq(S) /\ t # <<>> /\ Len(t) = Len(s) + 1 /\ Len(s) \in Nat
      /\ \A m \in 1 .. Len(s) : t[m] = s[m]
      /\ t[Len(s) + 1] = x
  BY AppendProperties, LenProperties
<1> HIDE DEF t
<1>2. ASSUME NEW m \in 0 .. Len(s)
      PROVE  SubSeq(t, 1, m) = SubSeq(s, 1, m)
  <2>1. m \in 0 .. Len(t)
    BY <1>1
  <2>2. /\ SubSeq(t, 1, m) \in Seq(S) /\ Len(SubSeq(t, 1, m)) = m
        /\ \A j \in 1 .. m : SubSeq(t, 1, m)[j] = t[j]
    BY <1>1, <2>1, SubSeqOfSeq
  <2>3. /\ SubSeq(s, 1, m) \in Seq(S) /\ Len(SubSeq(s, 1, m)) = m
        /\ \A j \in 1 .. m : SubSeq(s, 1, m)[j] = s[j]
    BY SubSeqOfSeq
  <2>4. \A j \in 1 .. m : t[j] = s[j]
    BY <1>1
  <2>5. QED
    BY <2>2, <2>3, <2>4, SeqEqual
<1>3. Front(t) = s
  <2>1. Len(t) - 1 = Len(s)
    BY <1>1
  <2>2. SubSeq(t, 1, Len(s)) = SubSeq(s, 1, Len(s))
    BY <1>1, <1>2
  <2>3. QED
    BY <2>1, <2>2, SubSeqFull DEF Front
<1>4. Last(t) = x
  BY <1>1 DEF Last
<1>5. QED
  BY <1>1, <1>2, <1>3, <1>4 DEF t

(* The registry an index commits to is a history. *)
LEMMA RegistryOfIndex ==
  ASSUME NEW index \in Seq(Envelopes)
  PROVE  Registry(index) \in Seq(Event)
<1>1. CASE index = <<>>
  BY <1>1, WorkflowAssumption DEF Registry
<1>2. CASE index # <<>>
  <2>1. Last(index) \in Envelopes
    BY <1>2, LastOfSeq
  <2>2. Last(index).snapshot \in Seq(Event)
    BY <2>1 DEF Envelopes
  <2>3. QED
    BY <1>2, <2>2 DEF Registry
<1>3. QED
  BY <1>1, <1>2

(* What appending an accepted event makes of an index. *)
LEMMA NewEnvelope ==
  ASSUME NEW index \in Seq(Envelopes), NEW r \in Requests, NEW now \in Time,
         NEW i \in Runs, NEW a \in Nat,
         EventOk(Registry(index), Stamp(Registry(index), r, now))
  PROVE  LET log == Registry(index)
             e   == Stamp(log, r, now)
             env == Envelope(Append(log, e), now, i, a)
         IN /\ log \in Seq(Event) /\ e \in Event /\ e.issuedAt = now
            /\ env \in Envelopes /\ Append(index, env) \in Seq(Envelopes)
<1> DEFINE log == Registry(index)
           e   == Stamp(log, r, now)
           env == Envelope(Append(log, e), now, i, a)
<1>1. log \in Seq(Event)
  BY RegistryOfIndex
<1>2. r \in Request /\ now \in Nat
  BY WorkflowAssumption
<1> HIDE DEF log
<1>3. e \in Event /\ e.issuedAt = now
  BY <1>1, <1>2, StampIsEvent DEF log
<1> HIDE DEF e
<1>4. Append(log, e) \in Seq(Event)
  BY <1>1, <1>3, OfAppend
<1>5. env \in Envelopes
  BY <1>2, <1>4 DEF Envelope, Envelopes
<1> HIDE DEF env
<1>6. Append(index, env) \in Seq(Envelopes)
  BY <1>5, OfAppend
<1>7. QED
  BY <1>1, <1>3, <1>5, <1>6 DEF log, e, env

-----------------------------------------------------------------------------
(* What a step leaves of main and the receipts: main is only extended, by   *)
(* an index that extends its last one, and receipts are never withdrawn.    *)
Grows ==
  /\ main' # <<>>
  /\ DOMAIN main \subseteq DOMAIN main'
  /\ \A n \in DOMAIN main : main'[n] = main[n]
  /\ DOMAIN Last(main) \subseteq DOMAIN Last(main')
  /\ \A m \in DOMAIN Last(main) : Last(main')[m] = Last(main)[m]
  /\ receipts \subseteq receipts'

(* A dispatched run keeps its input and never goes back within an attempt.  *)
FollowsOn(i) ==
  run[i].status # "idle" =>
    /\ run'[i].status # "idle"
    /\ run'[i].sha = run[i].sha /\ run'[i].request = run[i].request
    /\ run'[i].attempt \in Nat /\ run[i].attempt <= run'[i].attempt
    /\ run'[i].attempt = run[i].attempt /\ run[i].step \in {"commit", "pushed"} =>
         run'[i].step \in {"commit", "pushed"}

(* Only the status of a run changes. *)
SameHands(i) ==
  /\ run'[i].status = "idle" <=> run[i].status = "idle"
  /\ run[i].status # "idle" =>
       /\ run'[i].sha = run[i].sha /\ run'[i].request = run[i].request
       /\ run'[i].attempt = run[i].attempt /\ run'[i].step = run[i].step
       /\ run'[i].outcome = run[i].outcome /\ run'[i].index = run[i].index

(* What a receipt tells of its append outlasts every later commit. *)
LEMMA AppendStays ==
  ASSUME Grows, NEW r, r.signer \in DOMAIN main, AppendTrue(r)
  PROVE  AppendTrue(r)'
BY DEF Grows, AppendTrue

(* A run that keeps its hands keeps what they hold. *)
LEMMA RunStays ==
  ASSUME Grows, NEW i \in Runs, RunTrue(i), SameHands(i)
  PROVE  RunTrue(i)'
<1>1. SUFFICES ASSUME run'[i].status # "idle"
               PROVE  RunTrue(i)'
  BY DEF RunTrue
<1>2. Receipt(i, run[i].index)' = Receipt(i, run[i].index)
  BY <1>1 DEF SameHands, Receipt
<1>3. run[i].sha \in DOMAIN main
  BY <1>1 DEF SameHands, RunTrue
<1>4. Receipt(i, run[i].index).signer = run[i].sha
  BY DEF Receipt
<1> DEFINE rc == Receipt(i, run[i].index)
<1>5. rc.signer \in DOMAIN main
  BY <1>3, <1>4
<1> HIDE DEF rc
<1>6. AppendTrue(rc) => AppendTrue(rc)'
  BY <1>2, <1>5, AppendStays DEF rc
<1>7. QED
  BY <1>1, <1>2, <1>6 DEF SameHands, RunTrue, Grows, rc

(* A receipt stays true while its run moves on and repeats nothing. *)
LEMMA ReceiptStays ==
  ASSUME Custody, Grows, NEW r \in receipts, FollowsOn(r.run),
         \A q \in receipts' \ receipts : ~(q.run = r.run /\ q.attempt = r.attempt)
  PROVE  ReceiptTrue(r)'
<1>1. ReceiptTrue(r)
  BY DEF Custody
<1>2. /\ r.run \in Runs /\ run[r.run].status # "idle"
      /\ r.signer = run[r.run].sha
  BY <1>1 DEF ReceiptTrue
<1>3. r.signer \in DOMAIN main
  BY <1>2 DEF Custody, RunTrue
<1>4. /\ run[r.run].attempt \in Nat /\ run'[r.run].attempt \in Nat
      /\ run[r.run].attempt <= run'[r.run].attempt
  <2>1. run[r.run] \in Attempts
    BY <1>2 DEF Custody, TypeOK
  <2>2. run[r.run].attempt \in Nat
    BY <2>1, WorkflowAssumption DEF Attempts
  <2>3. QED
    BY <1>2, <2>2 DEF FollowsOn
<1>5. r.outcome = "appended" => AppendTrue(r)'
  BY <1>1, <1>3, AppendStays DEF ReceiptTrue
<1>6. /\ run'[r.run].status # "idle"
      /\ r.attempt \in Nat /\ r.attempt <= run'[r.run].attempt
      /\ r.attempt = run'[r.run].attempt => run'[r.run].step \in {"commit", "pushed"}
      /\ r.signer = run'[r.run].sha /\ r.request = run'[r.run].request
  BY <1>1, <1>2, <1>4 DEF ReceiptTrue, FollowsOn
<1>7. \A q \in receipts' : q.run = r.run /\ q.attempt = r.attempt => q = r
  BY <1>1 DEF ReceiptTrue
<1>8. QED
  BY <1>1, <1>5, <1>6, <1>7 DEF ReceiptTrue

(* What main held stays as it was receipted. *)
LEMMA IndexStays ==
  ASSUME Grows, NEW n \in DOMAIN main, IndexTrue(n)
  PROVE  IndexTrue(n)'
<1>1. main'[n] = main[n]
  BY DEF Grows
<1>2. ASSUME NEW m \in 2 .. Len(main[n]), Receipted(main[n], m)
      PROVE  Receipted(main[n], m)'
  BY <1>2 DEF Grows, Receipted
<1>3. QED
  BY <1>1, <1>2 DEF IndexTrue

(* What a step has to establish to keep Custody. *)
Committing(s, index) == \E n \in DOMAIN index : <<index[n].run, index[n].attempt>> = s

(* What a step has to show of what is new, so that Custody holds after it. *)
LEMMA CustodyStays ==
  ASSUME Custody, Grows, TypeOK', OneEach',
         \A i \in Runs : RunTrue(i)' /\ FollowsOn(i),
         \A r \in receipts' \ receipts :
           /\ ReceiptTrue(r)'
           /\ \A q \in receipts : ~(q.run = r.run /\ q.attempt = r.attempt),
         \A n \in DOMAIN main' \ DOMAIN main : IndexTrue(n)',
         \A s \in succeeded' \ succeeded : Committing(s, Last(main'))
  PROVE  Custody'
<1>1. \A r \in receipts' : ReceiptTrue(r)'
  <2> SUFFICES ASSUME NEW r \in receipts' PROVE ReceiptTrue(r)'
    OBVIOUS
  <2>1. CASE r \in receipts
    <3>1. r.run \in Runs
      BY <2>1 DEF Custody, ReceiptTrue
    <3>2. QED
      BY <2>1, <3>1, ReceiptStays
  <2>2. QED
    BY <2>1
<1>2. \A n \in DOMAIN main' : IndexTrue(n)'
  BY IndexStays DEF Custody
<1>3. SuccessMeansCommitted'
  <2> SUFFICES ASSUME NEW s \in succeeded' PROVE Committing(s, Last(main'))
    BY DEF SuccessMeansCommitted, Committing
  <2>1. CASE s \in succeeded
    <3>1. PICK n \in DOMAIN Last(main) :
            <<Last(main)[n].run, Last(main)[n].attempt>> = s
      BY <2>1 DEF Custody, SuccessMeansCommitted
    <3>2. n \in DOMAIN Last(main') /\ Last(main')[n] = Last(main)[n]
      BY <3>1 DEF Grows
    <3>3. QED
      BY <3>1, <3>2 DEF Committing
  <2>2. QED
    BY <2>1
<1>4. QED
  BY <1>1, <1>2, <1>3 DEF Custody, Grows

(* A step that leaves main and the receipts alone. *)
LEMMA StandsStill ==
  ASSUME Custody, main' = main, receipts' = receipts
  PROVE  Grows
BY DEF Custody, Grows

(* At most one run per waiting status is what the type invariant counts. *)
LEMMA AtMostOne ==
  ASSUME NEW S, \A x, y \in S : x = y
  PROVE  Cardinality(S) <= 1
<1>1. CASE S = {}
  BY <1>1, FS_EmptySet
<1>2. CASE S # {}
  <2>1. PICK x \in S : TRUE
    BY <1>2
  <2>2. S = {x}
    BY <2>1
  <2>3. QED
    BY <2>2, FS_Singleton
<1>3. QED
  BY <1>1, <1>2

(* Types and one run each are all that TypeOK says. *)
LEMMA TypeFollows ==
  ASSUME main' \in Seq(Seq(Envelopes)),
         run' \in [Runs -> [status : {"idle"}] \cup Attempts], OneEach'
  PROVE  TypeOK'
<1>1. ASSUME NEW s \in Waiting
      PROVE  Cardinality({i \in Runs : run'[i].status = s}) <= 1
  <2>1. \A x, y \in {i \in Runs : run'[i].status = s} : x = y
    BY <1>1 DEF OneEach
  <2>2. QED
    BY <2>1, AtMostOne
<1>2. QED
  BY <1>1 DEF TypeOK, Waiting

-----------------------------------------------------------------------------
(* The start: nothing is queued and main carries the genesis index. *)
LEMMA GenesisIsEnvelope == GenesisIndex \in Seq(Envelopes) /\ Len(GenesisIndex) = 1
<1>1. GenesisIndex[1] \in Envelopes
  BY WorkflowAssumption DEF GenesisIndex, Envelope, Envelopes
<1>2. QED
  BY <1>1 DEF GenesisIndex

(* The genesis on main and idle runs are in custody. *)
LEMMA CustodyInit == Init => Custody
<1>1. SUFFICES ASSUME Init PROVE Custody
  OBVIOUS
<1>2. /\ main = <<GenesisIndex>> /\ receipts = {} /\ succeeded = {}
      /\ run = [i \in Runs |-> [status |-> "idle"]]
  BY <1>1 DEF Init
<1>3. /\ main \in Seq(Seq(Envelopes)) /\ Len(main) = 1 /\ DOMAIN main = {1}
      /\ main # <<>> /\ main[1] = GenesisIndex
  BY <1>2, GenesisIsEnvelope
<1>4. \A i \in Runs : run[i].status = "idle"
  BY <1>2
<1>5. run \in [Runs -> [status : {"idle"}] \cup Attempts]
  BY <1>2
<1>6. OneEach
  BY <1>4 DEF OneEach, Waiting
<1>7. TypeOK
  <2>1. ASSUME NEW s \in Waiting
        PROVE  Cardinality({i \in Runs : run[i].status = s}) <= 1
    BY <1>4, AtMostOne DEF Waiting
  <2>2. QED
    BY <1>3, <1>5, <2>1 DEF TypeOK
<1>8. IndexTrue(1)
  <2>1. main[1] # <<>> /\ main[1][1] = GenesisIndex[1]
    BY <1>3 DEF GenesisIndex
  <2>2. 2 .. Len(main[1]) = {}
    BY <1>3, GenesisIsEnvelope
  <2>3. QED
    BY <2>1, <2>2 DEF IndexTrue
<1>9. QED
  BY <1>2, <1>3, <1>4, <1>6, <1>7, <1>8 DEF Custody, RunTrue, SuccessMeansCommitted

(* A dispatched run is an attempt. *)
LEMMA IsAttempt ==
  ASSUME TypeOK, NEW i \in Runs, run[i].status # "idle"
  PROVE  run[i] \in Attempts /\ run[i].attempt \in Nat \ {0}
<1>1. run[i] \in Attempts
  BY DEF TypeOK
<1>2. QED
  BY <1>1, WorkflowAssumption DEF Attempts

(* The steps of the run that runs, or starts to. *)
LEMMA StepKeeps ==
  ASSUME Custody, Grows, main' \in Seq(Seq(Envelopes)),
         NEW i \in Runs, NEW rec \in Attempts, run' = [run EXCEPT ![i] = rec],
         \/ run[i].status = "running"
         \/ run[i].status = "pending" /\ \A j \in Runs : run[j].status # "running",
         rec.status # "pending",
         rec.sha = run[i].sha, rec.request = run[i].request,
         rec.attempt = run[i].attempt,
         run[i].step \in {"commit", "pushed"} => rec.step \in {"commit", "pushed"},
         RunTrue(i)',
         \A r \in receipts' \ receipts :
           /\ ReceiptTrue(r)'
           /\ \A q \in receipts : ~(q.run = r.run /\ q.attempt = r.attempt),
         \A n \in DOMAIN main' \ DOMAIN main : IndexTrue(n)',
         \A s \in succeeded' \ succeeded : Committing(s, Last(main'))
  PROVE  Custody'
<1>1. TypeOK /\ OneEach
  BY DEF Custody
<1>2. /\ run'[i] = rec
      /\ \A j \in Runs : j # i => run'[j] = run[j]
      /\ run' \in [Runs -> [status : {"idle"}] \cup Attempts]
  BY <1>1 DEF TypeOK
<1>3. rec.status # "idle" /\ run[i].status # "idle"
  BY DEF Attempts
<1>4. OneEach'
  BY <1>1, <1>2 DEF OneEach, Waiting
<1>5. TypeOK'
  BY <1>2, <1>4, TypeFollows
<1>6. ASSUME NEW j \in Runs
      PROVE  RunTrue(j)' /\ FollowsOn(j)
  <2>1. CASE j = i
    BY <1>1, <1>2, <1>3, <2>1, IsAttempt DEF FollowsOn
  <2>2. CASE j # i
    <3>1. run'[j] = run[j]
      BY <1>2, <2>2
    <3>2. SameHands(j)
      BY <3>1 DEF SameHands
    <3>3. RunTrue(j)'
      BY <3>2, RunStays DEF Custody
    <3>4. run[j].status # "idle" => run[j].attempt \in Nat
      BY <1>1, IsAttempt
    <3>5. FollowsOn(j)
      BY <3>1, <3>4 DEF FollowsOn
    <3>6. QED
      BY <3>3, <3>5
  <2>3. QED
    BY <2>1, <2>2
<1>7. QED
  BY <1>4, <1>5, <1>6, CustodyStays

(* Queueing: the run that enters is at its start and cancels the pending one. *)
LEMMA EnqueueKeeps ==
  ASSUME Custody, UNCHANGED <<main, receipts, succeeded>>,
         NEW i \in Runs, NEW rec \in Attempts, Enqueue(i, rec),
         run[i].status \notin Waiting,
         rec.status = "pending", rec.step = "check", rec.sha \in DOMAIN main,
         run[i].status # "idle" =>
           /\ rec.sha = run[i].sha /\ rec.request = run[i].request
           /\ run[i].attempt < rec.attempt
  PROVE  Custody'
<1>1. TypeOK /\ OneEach
  BY DEF Custody
<1>2. Grows
  BY StandsStill
<1>3. /\ run'[i] = rec
      /\ \A j \in Runs : j # i =>
           run'[j] = IF run[j].status = "pending"
                     THEN [run[j] EXCEPT !.status = "cancelled"] ELSE run[j]
  BY DEF Enqueue
<1>4. ASSUME NEW j \in Runs, j # i
      PROVE  /\ run'[j] \in [status : {"idle"}] \cup Attempts
             /\ run'[j].status # "pending" /\ SameHands(j)
             /\ run'[j].status = "running" => run[j].status = "running"
  <2>1. CASE run[j].status = "pending"
    <3>1. run'[j] = [run[j] EXCEPT !.status = "cancelled"]
      BY <1>3, <1>4, <2>1
    <3>2. run[j] \in Attempts
      BY <1>1, <2>1, IsAttempt
    <3>3. run'[j] \in Attempts /\ run'[j].status = "cancelled"
      BY <3>1, <3>2 DEF Attempts
    <3>4. /\ run'[j].sha = run[j].sha /\ run'[j].request = run[j].request
          /\ run'[j].attempt = run[j].attempt /\ run'[j].step = run[j].step
          /\ run'[j].outcome = run[j].outcome /\ run'[j].index = run[j].index
      BY <3>1, <3>2 DEF Attempts
    <3>5. QED
      BY <2>1, <3>3, <3>4 DEF SameHands
  <2>2. CASE run[j].status # "pending"
    <3>1. run'[j] = run[j]
      BY <1>3, <1>4, <2>2
    <3>2. QED
      BY <1>1, <2>2, <3>1 DEF SameHands, TypeOK
  <2>3. QED
    BY <2>1, <2>2
<1>5. run' \in [Runs -> [status : {"idle"}] \cup Attempts]
  BY <1>3, <1>4 DEF Enqueue
<1>6. OneEach'
  BY <1>1, <1>3, <1>4 DEF OneEach, Waiting
<1>7. TypeOK'
  <2>1. main' \in Seq(Seq(Envelopes))
    BY <1>1 DEF TypeOK
  <2>2. QED
    BY <1>5, <1>6, <2>1, TypeFollows
<1>8. ASSUME NEW j \in Runs
      PROVE  RunTrue(j)' /\ FollowsOn(j)
  <2>1. CASE j = i
    <3>1. RunTrue(i)'
      BY <1>3 DEF RunTrue
    <3>2. rec.attempt \in Nat
      BY WorkflowAssumption DEF Attempts
    <3>3. run[i].status # "idle" => run[i].attempt \in Nat
      BY <1>1, IsAttempt
    <3>4. rec.status # "idle"
      OBVIOUS
    <3>5. FollowsOn(i)
      BY <1>3, <3>2, <3>3, <3>4 DEF FollowsOn
    <3>6. QED
      BY <2>1, <3>1, <3>5
  <2>2. CASE j # i
    <3>1. SameHands(j)
      BY <1>4, <2>2
    <3>2. RunTrue(j)'
      BY <1>2, <3>1, RunStays DEF Custody
    <3>3. run[j].status # "idle" => run[j].attempt \in Nat
      BY <1>1, IsAttempt
    <3>4. FollowsOn(j)
      BY <3>1, <3>3 DEF FollowsOn, SameHands
    <3>5. QED
      BY <3>2, <3>4
  <2>3. QED
    BY <2>1, <2>2
<1>9. QED
  BY <1>2, <1>6, <1>7, <1>8, CustodyStays

(* Starting, failing and concluding change the status alone. *)
LEMMA StatusKeeps ==
  ASSUME Custody, main' = main, receipts' = receipts,
         NEW i \in Runs, NEW status \in {"running", "failure", "success"},
         \/ run[i].status = "running"
         \/ run[i].status = "pending" /\ \A j \in Runs : run[j].status # "running",
         run' = [run EXCEPT ![i].status = status],
         \A s \in succeeded' \ succeeded : Committing(s, Last(main'))
  PROVE  Custody'
<1> DEFINE rec == [run[i] EXCEPT !.status = status]
<1>1. TypeOK /\ run[i] \in Attempts
  BY IsAttempt DEF Custody
<1>2. /\ rec \in Attempts /\ rec.status = status
      /\ rec.sha = run[i].sha /\ rec.request = run[i].request
      /\ rec.attempt = run[i].attempt /\ rec.step = run[i].step
      /\ rec.outcome = run[i].outcome /\ rec.index = run[i].index
  BY <1>1 DEF Attempts
<1>3. run' = [run EXCEPT ![i] = rec]
  BY <1>1 DEF TypeOK
<1> HIDE DEF rec
<1>4. Grows
  BY StandsStill
<1>5. RunTrue(i)'
  <2>1. run'[i] = rec
    BY <1>1, <1>3 DEF TypeOK
  <2>2. SameHands(i)
    BY <1>2, <2>1 DEF SameHands
  <2>3. QED
    BY <1>4, <2>2, RunStays DEF Custody
<1>6. main' \in Seq(Seq(Envelopes))
  BY <1>1 DEF TypeOK
<1>7. QED
  BY <1>2, <1>3, <1>4, <1>5, <1>6, StepKeeps

(* A failing step only ends its run. *)
LEMMA FailKeeps ==
  ASSUME Custody, NEW i \in Runs, run[i].status = "running", Fail(i)
  PROVE  Custody'
BY StatusKeeps DEF Fail

(* A pending run starts when the group is free. *)
LEMMA StartKeeps ==
  ASSUME Custody, NEW i \in Runs, Start(i)
  PROVE  Custody'
BY StatusKeeps DEF Start

(* A run that pushed or rejected concludes; its success is on main. *)
LEMMA ConcludeKeeps ==
  ASSUME Custody, NEW i \in Runs, Conclude(i)
  PROVE  Custody'
<1>1. /\ run[i].status = "running" /\ run[i].step = "pushed"
      /\ run' = [run EXCEPT ![i].status = "success"]
      /\ succeeded' = succeeded \cup {<<i, run[i].attempt>>}
      /\ main' = main /\ receipts' = receipts
  BY DEF Conclude, At
<1>2. Committing(<<i, run[i].attempt>>, Last(main'))
  BY <1>1 DEF Custody, RunTrue, Committing
<1>3. \A s \in succeeded' \ succeeded : Committing(s, Last(main'))
  BY <1>1, <1>2
<1>4. QED
  BY <1>1, <1>3, StatusKeeps

(* Queueing. *)
LEMMA DispatchKeeps ==
  ASSUME Custody, NEW i \in Runs, Dispatch(i)
  PROVE  Custody'
<1>1. TypeOK /\ main # <<>>
  BY DEF Custody
<1>2. PICK data \in Requests, index \in KnownIndexes :
        Enqueue(i, [status |-> "pending", kind |-> "append", step |-> "check",
                    attempt |-> 1, sha |-> Len(main), outcome |-> "none",
                    index |-> <<>>,
                    request |-> [eventData |-> data, expected |-> index]])
  BY DEF Dispatch
<1> DEFINE rec == [status |-> "pending", kind |-> "append", step |-> "check",
                   attempt |-> 1, sha |-> Len(main), outcome |-> "none",
                   index |-> <<>>,
                   request |-> [eventData |-> data, expected |-> index]]
<1>3. index \in Seq(Envelopes)
  <2>1. CASE index \in Range(main)
    <3>1. PICK n \in DOMAIN main : index = main[n]
      BY <2>1 DEF Range
    <3>2. QED
      BY <1>1, <3>1, ElementOfSeq, LenProperties DEF TypeOK
  <2>2. CASE index \in {r.index : r \in receipts}
    BY <2>2 DEF Custody, ReceiptTrue
  <2>3. QED
    BY <2>1, <2>2 DEF KnownIndexes
<1>4. Len(main) \in DOMAIN main /\ Len(main) \in Nat \ {0}
  BY <1>1, LastOfSeq, LenProperties DEF TypeOK
<1>5. <<>> \in Seq(Envelopes) /\ 1 \in 1 .. MaxAttempts
  BY WorkflowAssumption
<1>6. rec \in Attempts
  BY <1>3, <1>4, <1>5 DEF Attempts
<1>7. /\ rec.status = "pending" /\ rec.step = "check" /\ rec.sha \in DOMAIN main
      /\ Enqueue(i, rec)
  BY <1>2, <1>4
<1> HIDE DEF rec
<1>8. run[i].status = "idle" /\ UNCHANGED <<main, receipts, succeeded>>
  BY DEF Dispatch
<1>9. QED
  BY <1>6, <1>7, <1>8, EnqueueKeeps DEF Waiting

(* A re-run is a new attempt on the commit of the first one. *)
LEMMA RerunKeeps ==
  ASSUME Custody, NEW i \in Runs, Rerun(i)
  PROVE  Custody'
<1> DEFINE rec == [run[i] EXCEPT !.status = "pending", !.step = "check",
                                 !.attempt = @ + 1, !.outcome = "none",
                                 !.index = <<>>]
<1>1. /\ run[i].status \in {"success", "failure", "cancelled"}
      /\ run[i].attempt < MaxAttempts /\ Enqueue(i, rec)
      /\ UNCHANGED <<main, receipts, succeeded>>
  BY DEF Rerun
<1>2. TypeOK /\ run[i] \in Attempts /\ run[i].attempt \in Nat
  BY <1>1, IsAttempt DEF Custody
<1>3. <<>> \in Seq(Envelopes) /\ run[i].attempt + 1 \in 1 .. MaxAttempts
  BY <1>1, <1>2, WorkflowAssumption
<1>4. /\ rec \in Attempts /\ rec.status = "pending" /\ rec.step = "check"
      /\ rec.sha = run[i].sha /\ rec.request = run[i].request
      /\ rec.attempt = run[i].attempt + 1
  BY <1>2, <1>3 DEF Attempts
<1>5. rec.sha \in DOMAIN main
  BY <1>1, <1>4 DEF Custody, RunTrue
<1> HIDE DEF rec
<1>6. run[i].attempt < rec.attempt
  BY <1>2, <1>4
<1>7. QED
  BY <1>1, <1>4, <1>5, <1>6, EnqueueKeeps DEF Waiting

-----------------------------------------------------------------------------
(* The steps of a running attempt. *)
LEMMA CheckRefKeeps ==
  ASSUME Custody, NEW i \in Runs, CheckRef(i)
  PROVE  Custody'
<1>1. run[i].status = "running" /\ run[i].step = "check"
  BY DEF CheckRef, At
<1>2. CASE run[i].sha # Len(main)
  BY <1>1, <1>2, FailKeeps DEF CheckRef
<1>3. CASE run[i].sha = Len(main)
  <2> DEFINE rec == [run[i] EXCEPT !.step = run[i].kind]
  <2>1. TypeOK /\ run[i] \in Attempts /\ run[i].kind = "append"
    BY <1>1, IsAttempt DEF Custody, Attempts
  <2>2. /\ rec \in Attempts /\ rec.status = "running" /\ rec.step = "append"
        /\ rec.sha = run[i].sha /\ rec.request = run[i].request
        /\ rec.attempt = run[i].attempt
    BY <1>1, <2>1 DEF Attempts
  <2>3. run' = [run EXCEPT ![i] = rec] /\ UNCHANGED <<main, receipts, succeeded>>
    BY <1>3, <2>1 DEF CheckRef, TypeOK
  <2> HIDE DEF rec
  <2>4. run'[i] = rec
    BY <2>1, <2>3 DEF TypeOK
  <2>5. RunTrue(i)'
    BY <1>1, <2>2, <2>3, <2>4 DEF Custody, RunTrue
  <2>6. main' \in Seq(Seq(Envelopes))
    BY <2>1, <2>3 DEF TypeOK
  <2>7. QED
    BY <1>1, <2>2, <2>3, <2>5, <2>6, StandsStill, StepKeeps
<1>4. QED
  BY <1>2, <1>3

(* The tree a run checked out carries the genesis index or more. *)
LEMMA TreeHasGenesis ==
  ASSUME Custody, NEW n \in DOMAIN main
  PROVE  /\ main[n] \in Seq(Envelopes) /\ main[n] # <<>>
         /\ Len(main[n]) \in DOMAIN main[n]
         /\ Last(main[n]) = main[n][Len(main[n])] /\ Last(main[n]) \in Envelopes
         /\ Registry(main[n]) = Last(main[n]).snapshot
<1>1. main[n] \in Seq(Envelopes)
  BY ElementOfSeq, LenProperties DEF Custody, TypeOK
<1>2. main[n] # <<>>
  BY DEF Custody, IndexTrue
<1>3. QED
  BY <1>1, <1>2, LastOfSeq DEF Registry

(* The script accepts an event or rejects it, and writes the receipt of it. *)
LEMMA AppendEventKeeps ==
  ASSUME Custody, NEW i \in Runs, AppendEvent(i)
  PROVE  Custody'
<1> DEFINE index == TreeIndex(i)
           log   == Registry(index)
           e(now) == Stamp(log, run[i].request.eventData, now)
           env(now) == Envelope(Append(log, e(now)), now, i, run[i].attempt)
           rec(outcome, result) ==
             [run[i] EXCEPT !.step = "attest", !.outcome = outcome, !.index = result]
<1>1. /\ run[i].status = "running" /\ run[i].step = "append"
      /\ TypeOK /\ run[i] \in Attempts /\ run[i].attempt \in Nat
  BY IsAttempt DEF AppendEvent, At, Custody
<1>2. run[i].sha \in DOMAIN main /\ run[i].request.eventData \in Requests
  BY <1>1 DEF Custody, RunTrue, Attempts
<1>3. /\ index = main[run[i].sha]
      /\ index \in Seq(Envelopes) /\ index # <<>> /\ Last(index) \in Envelopes
  BY <1>2, TreeHasGenesis DEF TreeIndex
<1>4. CASE Fail(i)
  BY <1>1, <1>4, FailKeeps
<1>5. ASSUME NEW outcome \in {"appended", "rejected"}, NEW result \in Seq(Envelopes),
             run' = [run EXCEPT ![i].step = "attest", ![i].outcome = outcome,
                                ![i].index = result],
             UNCHANGED <<main, receipts, succeeded>>,
             outcome = "appended" =>
               AppendTrue([run |-> i, attempt |-> run[i].attempt,
                           signer |-> run[i].sha, request |-> run[i].request,
                           outcome |-> outcome, index |-> result])
      PROVE  Custody'
  <2> DEFINE r == rec(outcome, result)
  <2>1. /\ r \in Attempts /\ r.status = "running" /\ r.step = "attest"
        /\ r.sha = run[i].sha /\ r.request = run[i].request
        /\ r.attempt = run[i].attempt /\ r.outcome = outcome /\ r.index = result
    BY <1>1 DEF Attempts
  <2>2. run' = [run EXCEPT ![i] = r]
    BY <1>1, <1>5 DEF TypeOK
  <2> HIDE DEF r
  <2>3. run'[i] = r
    BY <1>1, <2>2 DEF TypeOK
  <2>4. Grows /\ main' \in Seq(Seq(Envelopes))
    BY <1>1, <1>5, StandsStill DEF TypeOK
  <2>5. Receipt(i, run[i].index)' =
          [run |-> i, attempt |-> run[i].attempt, signer |-> run[i].sha,
           request |-> run[i].request, outcome |-> outcome, index |-> result]
    BY <2>1, <2>3 DEF Receipt
  <2> DEFINE rc == [run |-> i, attempt |-> run[i].attempt, signer |-> run[i].sha,
           request |-> run[i].request, outcome |-> outcome, index |-> result]
  <2>6. outcome = "appended" => AppendTrue(rc)'
    <3>1. rc.signer \in DOMAIN main
      BY <1>2
    <3>2. outcome = "appended" => AppendTrue(rc)
      BY <1>5
    <3>3. rc' = rc
      BY <2>1, <2>3
    <3> HIDE DEF rc
    <3>4. QED
      BY <2>4, <3>1, <3>2, <3>3, AppendStays
  <2> HIDE DEF rc
  <2>7. RunTrue(i)'
    BY <1>2, <1>5, <2>1, <2>3, <2>5, <2>6 DEF RunTrue, rc
  <2>8. QED
    BY <1>1, <1>5, <2>1, <2>2, <2>4, <2>7, StepKeeps
<1>6. CASE ~Fail(i)
  <2>1. /\ FreshRequest(i)
        /\ \E now \in Time :
             \/ UNCHANGED <<main, receipts, succeeded>>
                /\ run' = [run EXCEPT ![i].step = "attest", ![i].outcome = "rejected",
                                      ![i].index = index]
             \/ /\ Len(log) < MaxEvents /\ Accepted(log, e(now))
                /\ ChainedIndex(index, now)
                /\ UNCHANGED <<main, receipts, succeeded>>
                /\ run' = [run EXCEPT ![i].step = "attest", ![i].outcome = "appended",
                                      ![i].index = NextIndex(index, env(now))]
    BY <1>6 DEF AppendEvent
  <2>2. PICK now \in Time :
             \/ UNCHANGED <<main, receipts, succeeded>>
                /\ run' = [run EXCEPT ![i].step = "attest", ![i].outcome = "rejected",
                                      ![i].index = index]
             \/ /\ Len(log) < MaxEvents /\ Accepted(log, e(now))
                /\ ChainedIndex(index, now)
                /\ UNCHANGED <<main, receipts, succeeded>>
                /\ run' = [run EXCEPT ![i].step = "attest", ![i].outcome = "appended",
                                      ![i].index = NextIndex(index, env(now))]
    BY <2>1
  <2>3. CASE /\ UNCHANGED <<main, receipts, succeeded>>
             /\ run' = [run EXCEPT ![i].step = "attest", ![i].outcome = "rejected",
                                   ![i].index = index]
    <3> HIDE DEF index
    <3>1. QED
      BY <1>3, <1>5, <2>3
  <2>4. CASE /\ Len(log) < MaxEvents /\ Accepted(log, e(now))
             /\ ChainedIndex(index, now)
             /\ UNCHANGED <<main, receipts, succeeded>>
             /\ run' = [run EXCEPT ![i].step = "attest", ![i].outcome = "appended",
                                   ![i].index = NextIndex(index, env(now))]
    <3> DEFINE result == Append(index, env(now))
               rc == [run |-> i, attempt |-> run[i].attempt, signer |-> run[i].sha,
                      request |-> run[i].request, outcome |-> "appended",
                      index |-> result]
    <3>1. EventOk(Registry(index), Stamp(Registry(index), run[i].request.eventData, now))
      BY <2>4 DEF Accepted
    <3> HIDE DEF index
    <3>2. env(now) \in Envelopes /\ result \in Seq(Envelopes)
      BY <1>1, <1>2, <1>3, <3>1, NewEnvelope
    <3>3. Last(result) = env(now) /\ env(now).issuedAt = now
      BY <1>3, <3>2, OfAppend DEF Envelope
    <3>4. /\ env(now).issuedAt = now /\ e(now) = Stamp(log, run[i].request.eventData, now)
          /\ env(now) = Envelope(Append(log, e(now)), now, i, run[i].attempt)
      BY <3>3
    <3>5. Last(index).issuedAt <= now
      BY <1>3, <2>4 DEF ChainedIndex
    <3>6. run[i].request.expected = index
      BY <2>1 DEF FreshRequest, index
    <3>7. AppendTrue(rc)
      <4>1. /\ rc.run = i /\ rc.attempt = run[i].attempt /\ rc.request = run[i].request
            /\ rc.index = result /\ main[rc.signer] = index
        BY <1>3
      <4>2. result = Append(index, env(now)) /\ Accepted(log, e(now)) /\ Len(log) < MaxEvents
        BY <2>4
      <4> HIDE DEF rc, result, log, e, env
      <4>3. QED
        BY <3>3, <3>4, <3>5, <3>6, <4>1, <4>2 DEF AppendTrue, Accepted, log
    <3>8. QED
      BY <1>5, <2>4, <3>2, <3>7 DEF NextIndex
  <2>5. QED
    BY <2>2, <2>3, <2>4
<1>7. QED
  BY <1>4, <1>6

(* The receipt of an attempt is its first and only one. *)
LEMMA UploadReceiptKeeps ==
  ASSUME Custody, NEW i \in Runs, UploadReceipt(i)
  PROVE  Custody'
<1> DEFINE rec == [run[i] EXCEPT !.step = "commit"]
           rc  == Receipt(i, run[i].index)
<1>1. /\ run[i].status = "running" /\ run[i].step = "attest"
      /\ TypeOK /\ run[i] \in Attempts /\ run[i].attempt \in Nat
      /\ receipts' = receipts \cup {rc} /\ UNCHANGED <<main, succeeded>>
      /\ run' = [run EXCEPT ![i].step = "commit"]
  BY IsAttempt DEF UploadReceipt, At, Custody
<1>2. /\ rec \in Attempts /\ rec.status = "running" /\ rec.step = "commit"
      /\ rec.sha = run[i].sha /\ rec.request = run[i].request
      /\ rec.attempt = run[i].attempt /\ rec.outcome = run[i].outcome
      /\ rec.index = run[i].index
  BY <1>1 DEF Attempts
<1>3. run' = [run EXCEPT ![i] = rec] /\ run'[i] = rec
  BY <1>1 DEF TypeOK
<1> HIDE DEF rec
<1>4. Grows /\ main' \in Seq(Seq(Envelopes))
  BY <1>1 DEF Custody, TypeOK, Grows
<1>5. /\ run[i].sha \in DOMAIN main /\ run[i].outcome \in {"appended", "rejected"}
      /\ run[i].outcome = "appended" => AppendTrue(rc)
  BY <1>1 DEF Custody, RunTrue
<1>6. /\ rc.run = i /\ rc.attempt = run[i].attempt /\ rc.signer = run[i].sha
      /\ rc.request = run[i].request /\ rc.index = run[i].index
      /\ rc.outcome = run[i].outcome
  BY DEF Receipt
<1>7. Receipt(i, run[i].index)' = rc
  BY <1>2, <1>3 DEF Receipt
<1>8. rc' = rc
  BY <1>7
<1>9. rc \in receipts'
  BY <1>1
<1> HIDE DEF rc
<1>10. rc.outcome = "appended" => AppendTrue(rc)'
  BY <1>4, <1>5, <1>6, <1>8, AppendStays
<1>11. RunTrue(i)'
  BY <1>1, <1>2, <1>3, <1>5, <1>6, <1>7, <1>9, <1>10, <1>8 DEF RunTrue
<1>12. \A q \in receipts : ~(q.run = rc.run /\ q.attempt = rc.attempt)
  BY <1>1, <1>6 DEF Custody, ReceiptTrue
<1>13. ReceiptTrue(rc)'
  <2>1. run[i].index \in Seq(Envelopes)
    BY <1>1 DEF Attempts
  <2>2. \A q \in receipts' : q.run = rc.run /\ q.attempt = rc.attempt => q = rc
    BY <1>1, <1>12
  <2>3. QED
    BY <1>1, <1>2, <1>3, <1>6, <1>8, <1>10, <2>1, <2>2 DEF ReceiptTrue
<1>14. \A r \in receipts' \ receipts :
         ReceiptTrue(r)' /\ \A q \in receipts : ~(q.run = r.run /\ q.attempt = r.attempt)
  BY <1>1, <1>8, <1>12, <1>13
<1>15. QED
  BY <1>1, <1>2, <1>3, <1>4, <1>11, <1>14, StepKeeps

(* Main takes one more commit, whose index extends the last. *)
LEMMA MainTakes ==
  ASSUME Custody, NEW index \in Seq(Envelopes),
         main' = Append(main, index), receipts' = receipts,
         DOMAIN Last(main) \subseteq DOMAIN index,
         \A m \in DOMAIN Last(main) : index[m] = Last(main)[m]
  PROVE  /\ Grows /\ main' \in Seq(Seq(Envelopes)) /\ Last(main') = index
         /\ \A n \in DOMAIN main' \ DOMAIN main : n = Len(main) + 1
         /\ Len(main) + 1 \in DOMAIN main' /\ main'[Len(main) + 1] = index
         /\ Len(main) \in DOMAIN main /\ Last(main) = main[Len(main)]
<1>1. main \in Seq(Seq(Envelopes)) /\ main # <<>>
  BY DEF Custody, TypeOK
<1>2. /\ main' \in Seq(Seq(Envelopes)) /\ main' # <<>>
      /\ Len(main') = Len(main) + 1 /\ Last(main') = index
      /\ \A m \in 1 .. Len(main) : main'[m] = main[m]
      /\ main'[Len(main) + 1] = index
  BY <1>1, OfAppend, AppendProperties
<1>3. /\ Len(main) \in Nat /\ DOMAIN main = 1 .. Len(main)
      /\ DOMAIN main' = 1 .. (Len(main) + 1)
  BY <1>1, <1>2, LenProperties
<1>4. Len(main) \in DOMAIN main /\ Last(main) = main[Len(main)]
  BY <1>1, LastOfSeq
<1>5. Grows
  BY <1>2, <1>3 DEF Grows
<1>6. QED
  BY <1>2, <1>3, <1>4, <1>5

(* A merge adds a commit with the index of the one before. *)
LEMMA MergeCodeKeeps ==
  ASSUME Custody, MergeCode
  PROVE  Custody'
<1> DEFINE tip == Last(main)
<1>1. /\ TypeOK /\ OneEach
      /\ main' = Append(main, tip) /\ UNCHANGED <<run, receipts, succeeded>>
  BY DEF MergeCode, Custody
<1>2. tip \in Seq(Envelopes)
  <2>1. main \in Seq(Seq(Envelopes)) /\ main # <<>>
    BY DEF Custody, TypeOK
  <2>2. QED
    BY <2>1, LastOfSeq
<1>3. /\ Grows /\ main' \in Seq(Seq(Envelopes)) /\ Last(main') = tip
      /\ \A n \in DOMAIN main' \ DOMAIN main : n = Len(main) + 1
      /\ main'[Len(main) + 1] = tip
      /\ Len(main) \in DOMAIN main /\ tip = main[Len(main)]
  BY <1>1, <1>2, MainTakes
<1>4. TypeOK' /\ OneEach'
  BY <1>1, <1>3 DEF TypeOK, OneEach
<1>5. ASSUME NEW j \in Runs
      PROVE  RunTrue(j)' /\ FollowsOn(j)
  <2>1. SameHands(j)
    BY <1>1 DEF SameHands
  <2>2. RunTrue(j)'
    BY <1>3, <2>1, RunStays DEF Custody
  <2>3. run[j].status # "idle" => run[j].attempt \in Nat
    BY <1>1, IsAttempt
  <2>4. FollowsOn(j)
    BY <2>1, <2>3 DEF FollowsOn, SameHands
  <2>5. QED
    BY <2>2, <2>4
<1>6. \A n \in DOMAIN main' \ DOMAIN main : IndexTrue(n)'
  <2> SUFFICES ASSUME NEW k \in DOMAIN main, k = Len(main), NEW n, n = k + 1
               PROVE  IndexTrue(n)'
    BY <1>3
  <2>1. IndexTrue(k)'
    BY <1>3, IndexStays DEF Custody
  <2>2. main'[n] = main'[k]
    BY <1>3 DEF Grows
  <2>3. QED
    BY <2>1, <2>2 DEF IndexTrue
<1>7. QED
  BY <1>1, <1>3, <1>4, <1>5, <1>6, CustodyStays

(* The push appends what the receipt of the attempt already tells of. *)
LEMMA PushBrings ==
  ASSUME Custody, NEW i \in Runs, Push(i)
  PROVE  LET index == run[i].index
             rc    == Receipt(i, index)
         IN /\ run[i].status = "running" /\ run[i].step = "commit"
            /\ run[i] \in Attempts /\ run[i].sha = Len(main)
            /\ rc \in receipts /\ rc.run = i /\ rc.attempt = run[i].attempt
            /\ rc.outcome = "appended" /\ rc.index = index
            /\ rc.signer = Len(main) /\ rc.request = run[i].request /\ AppendTrue(rc)
            /\ Len(main) \in DOMAIN main /\ Last(main) = main[Len(main)]
            /\ Last(main) \in Seq(Envelopes) /\ index \in Seq(Envelopes)
            /\ Last(index) \in Envelopes /\ index = Append(Last(main), Last(index))
            /\ main' = Append(main, index) /\ receipts' = receipts
            /\ succeeded' = succeeded
<1> DEFINE index == run[i].index
           rc    == Receipt(i, index)
<1>1. /\ run[i].status = "running" /\ run[i].step = "commit"
      /\ run[i].outcome # "rejected" /\ run[i].sha = Len(main)
      /\ main' = Append(main, index) /\ UNCHANGED <<receipts, succeeded>>
      /\ TypeOK /\ run[i] \in Attempts /\ main \in Seq(Seq(Envelopes)) /\ main # <<>>
  BY IsAttempt DEF Push, At, Custody, TypeOK
<1>2. run[i].outcome = "appended" /\ AppendTrue(rc) /\ rc \in receipts
  BY <1>1 DEF Custody, RunTrue
<1>3. /\ rc.run = i /\ rc.attempt = run[i].attempt /\ rc.outcome = "appended"
      /\ rc.index = index /\ rc.signer = Len(main) /\ rc.request = run[i].request
  BY <1>1, <1>2 DEF Receipt
<1>4. /\ Len(main) \in DOMAIN main /\ Last(main) = main[Len(main)]
      /\ Last(main) \in Seq(Envelopes)
  BY <1>1, LastOfSeq
<1>5. index \in Seq(Envelopes)
  BY <1>1 DEF Attempts
<1> HIDE DEF rc, index
<1>6. index = Append(Last(main), Last(index))
  BY <1>2, <1>3, <1>4 DEF AppendTrue
<1>7. index # <<>>
  BY <1>4, <1>6, AppendProperties
<1>8. Last(index) \in Envelopes
  BY <1>5, <1>7, LastOfSeq
<1>9. QED
  BY <1>1, <1>2, <1>3, <1>4, <1>5, <1>6, <1>8 DEF index, rc

(* A push commits what its run has in its hands, on the tip it was pinned to. *)
LEMMA PushKeeps ==
  ASSUME Custody, NEW i \in Runs, Push(i)
  PROVE  Custody'
<1> DEFINE index == run[i].index
           rc    == Receipt(i, index)
           env   == Last(index)
           prior == Last(main)
           rec   == [run[i] EXCEPT !.step = "pushed"]
<1>1. /\ run[i].status = "running" /\ run[i].step = "commit"
      /\ run[i] \in Attempts /\ run[i].sha = Len(main)
      /\ rc \in receipts /\ rc.run = i /\ rc.attempt = run[i].attempt
      /\ rc.outcome = "appended" /\ rc.index = index
      /\ rc.signer = Len(main) /\ rc.request = run[i].request /\ AppendTrue(rc)
      /\ Len(main) \in DOMAIN main /\ prior = main[Len(main)]
      /\ prior \in Seq(Envelopes) /\ index \in Seq(Envelopes)
      /\ env \in Envelopes /\ index = Append(prior, env)
      /\ main' = Append(main, index) /\ receipts' = receipts
      /\ succeeded' = succeeded
  BY PushBrings
<1>2. /\ run' = [run EXCEPT ![i] = rec] /\ run'[i] = rec /\ run[i].outcome = "appended"
      /\ rec \in Attempts /\ rec.status = "running" /\ rec.step = "pushed"
      /\ rec.sha = run[i].sha /\ rec.request = run[i].request
      /\ rec.attempt = run[i].attempt /\ rec.outcome = run[i].outcome
      /\ rec.index = run[i].index
  BY <1>1 DEF Push, Custody, TypeOK, Attempts, Receipt
<1>3. rc' = rc
  BY <1>2 DEF Receipt
<1> HIDE DEF rec
<1>4. /\ Len(prior) \in Nat \ {0} /\ DOMAIN prior = 1 .. Len(prior)
      /\ Len(index) = Len(prior) + 1 /\ DOMAIN index = 1 .. (Len(prior) + 1)
      /\ \A m \in 1 .. Len(prior) :
           index[m] = prior[m] /\ SubSeq(index, 1, m) = SubSeq(prior, 1, m)
      /\ index[Len(prior) + 1] = env
  <2>1. prior # <<>>
    BY <1>1 DEF Custody, IndexTrue
  <2>2. Len(prior) \in Nat \ {0} /\ DOMAIN prior = 1 .. Len(prior)
    BY <1>1, <2>1, EmptySeq, LenProperties
  <2> HIDE DEF rc, env, prior, index
  <2>3. QED
    BY <1>1, <2>2, OfAppend, AppendProperties, LenProperties
<1>5. /\ Grows /\ main' \in Seq(Seq(Envelopes)) /\ Last(main') = index
      /\ \A n \in DOMAIN main' \ DOMAIN main : n = Len(main) + 1
      /\ Len(main) + 1 \in DOMAIN main' /\ main'[Len(main) + 1] = index
  <2>1. DOMAIN prior \subseteq DOMAIN index
    BY <1>4
  <2>2. \A m \in DOMAIN prior : index[m] = prior[m]
    BY <1>4
  <2>3. index \in Seq(Envelopes) /\ main' = Append(main, index) /\ receipts' = receipts
    BY <1>1
  <2> HIDE DEF index
  <2>4. QED
    BY <2>1, <2>2, <2>3, MainTakes
<1>6. env.run = i /\ env.attempt = run[i].attempt
  BY <1>1 DEF AppendTrue, Envelope
<1>7. RunTrue(i)'
  <2>1. run'[i].sha \in DOMAIN main' /\ run'[i].outcome = "appended"
    BY <1>1, <1>2, <1>5 DEF Grows
  <2>2. AppendTrue(rc)'
    <3> HIDE DEF rc
    <3>1. QED
      BY <1>1, <1>3, <1>5, AppendStays
  <2>3. /\ Len(prior) + 1 \in DOMAIN Last(main')
        /\ <<Last(main')[Len(prior) + 1].run, Last(main')[Len(prior) + 1].attempt>>
             = <<i, run'[i].attempt>>
    BY <1>2, <1>4, <1>5, <1>6
  <2>4. rc' \in receipts'
    BY <1>1, <1>3
  <2>5. QED
    BY <2>1, <2>2, <2>3, <2>4 DEF RunTrue
<1>8. \A n \in DOMAIN main' \ DOMAIN main : IndexTrue(n)'
  <2>1. index # <<>> /\ index[1] = GenesisIndex[1]
    BY <1>1, <1>4, EmptySeq DEF Custody, IndexTrue
  <2>2. ASSUME NEW m \in 2 .. Len(index)
        PROVE  \E r \in receipts' :
                 /\ r.outcome = "appended" /\ r.index = SubSeq(index, 1, m)
                 /\ r.signer + 1 \in DOMAIN main' /\ main'[r.signer + 1] = r.index
    <3>1. CASE m = Len(index)
      <4>1. SubSeq(index, 1, m) = index
        BY <1>1, <3>1, SubSeqFull
      <4>2. QED
        BY <1>1, <1>5, <4>1
    <3>2. CASE m # Len(index)
      <4>1. m \in 2 .. Len(prior) /\ SubSeq(index, 1, m) = SubSeq(prior, 1, m)
        BY <1>4, <3>2
      <4>2. PICK r \in receipts :
              /\ r.outcome = "appended" /\ r.index = SubSeq(prior, 1, m)
              /\ r.signer + 1 \in DOMAIN main /\ main[r.signer + 1] = r.index
        <5>1. IndexTrue(Len(main))
          BY <1>1 DEF Custody
        <5>2. Receipted(prior, m)
          BY <1>1, <4>1, <5>1 DEF IndexTrue
        <5>3. QED
          BY <5>2 DEF Receipted
      <4>3. QED
        BY <1>1, <1>5, <4>1, <4>2 DEF Grows
    <3>3. QED
      BY <3>1, <3>2
  <2>3. QED
    BY <1>5, <2>1, <2>2 DEF IndexTrue, Receipted
<1>9. QED
  <2> HIDE DEF rc, index, env
  <2>1. QED
    BY <1>1, <1>2, <1>5, <1>7, <1>8, StepKeeps

(* Every step keeps Custody. *)
LEMMA CustodyNext ==
  ASSUME Custody, [Next]_vars
  PROVE  Custody'
<1>1. ASSUME NEW i \in Runs, Step(i)
      PROVE  Custody'
  <2>1. CASE Reject(i) \/ PushRefused(i)
    BY <2>1, FailKeeps DEF Reject, PushRefused, At
  <2>2. QED
    BY <1>1, <2>1, CheckRefKeeps, AppendEventKeeps, UploadReceiptKeeps, PushKeeps,
       ConcludeKeeps DEF Step
<1>2. ASSUME NEW i \in Runs, Interrupt(i)
      PROVE  Custody'
  BY <1>2, FailKeeps DEF Interrupt
<1>3. CASE UNCHANGED vars
  BY <1>3 DEF vars, Custody, TypeOK, OneEach, RunTrue, ReceiptTrue, IndexTrue,
     Receipted, SuccessMeansCommitted, AppendTrue, Receipt
<1>4. QED
  BY <1>1, <1>2, <1>3, DispatchKeeps, RerunKeeps, StartKeeps, MergeCodeKeeps DEF Next

(* Everything every run has in its hands, every receipt and everything on   *)
(* main is what the custody of the registry requires, in every reachable    *)
(* state.                                                                   *)
THEOREM CustodyKept == Spec => []Custody
<1>1. QED
  BY CustodyInit, CustodyNext, PTL DEF Spec

-----------------------------------------------------------------------------
(* How the n-th envelope of an index on main came to be. *)
LEMMA HowItCame ==
  ASSUME Custody, NEW k \in DOMAIN main, NEW n \in 2 .. Len(main[k])
  PROVE  \E r \in receipts :
           /\ r.outcome = "appended" /\ r.index = SubSeq(main[k], 1, n)
           /\ r.signer + 1 \in DOMAIN main /\ main[r.signer + 1] = r.index
           /\ r.signer \in DOMAIN main /\ main[r.signer] = SubSeq(main[k], 1, n - 1)
           /\ Last(r.index) = main[k][n] /\ main[k][n] \in Envelopes
           /\ main[k][n].run = r.run /\ main[k][n].attempt = r.attempt
           /\ ReceiptTrue(r) /\ AppendTrue(r)
<1> DEFINE index == main[k]
<1>1. index \in Seq(Envelopes) /\ n \in 1 .. Len(index) /\ n - 1 \in 0 .. Len(index)
  BY TreeHasGenesis, LenProperties
<1>2. PICK r \in receipts :
        /\ r.outcome = "appended" /\ r.index = SubSeq(index, 1, n)
        /\ r.signer + 1 \in DOMAIN main /\ main[r.signer + 1] = r.index
  BY DEF Custody, IndexTrue, Receipted
<1>3. ReceiptTrue(r) /\ AppendTrue(r)
  BY <1>2 DEF Custody, ReceiptTrue
<1>4. r.signer \in DOMAIN main
  BY <1>3 DEF Custody, ReceiptTrue, RunTrue
<1>5. main[r.signer] \in Seq(Envelopes)
  BY <1>4, TreeHasGenesis
<1> HIDE DEF index
<1>6. /\ r.index \in Seq(Envelopes) /\ Len(r.index) = n
      /\ \A j \in 1 .. n : r.index[j] = index[j]
  BY <1>1, <1>2, SubSeqOfSeq
<1>7. r.index # <<>>
  BY <1>1, <1>6, EmptySeq
<1>8. Last(r.index) = index[n] /\ index[n] \in Envelopes
  BY <1>1, <1>6, <1>7, LastOfSeq
<1>9. r.index = Append(main[r.signer], index[n])
  BY <1>3, <1>8 DEF AppendTrue
<1>10. main[r.signer] = SubSeq(index, 1, n - 1)
  <2>1. /\ Len(main[r.signer]) = n - 1
        /\ \A j \in 1 .. (n - 1) : r.index[j] = main[r.signer][j]
    BY <1>1, <1>5, <1>6, <1>8, <1>9, OfAppend, AppendProperties, LenProperties
  <2>2. /\ SubSeq(index, 1, n - 1) \in Seq(Envelopes)
        /\ Len(SubSeq(index, 1, n - 1)) = n - 1
        /\ \A j \in 1 .. (n - 1) : SubSeq(index, 1, n - 1)[j] = index[j]
    BY <1>1, SubSeqOfSeq
  <2>3. \A j \in 1 .. (n - 1) : main[r.signer][j] = SubSeq(index, 1, n - 1)[j]
    BY <1>1, <1>6, <2>1, <2>2
  <2>4. QED
    BY <1>5, <2>1, <2>2, <2>3, SeqEqual
<1>11. index[n].run = r.run /\ index[n].attempt = r.attempt
  BY <1>3, <1>8 DEF AppendTrue, Envelope
<1>12. QED
  BY <1>2, <1>3, <1>4, <1>8, <1>10, <1>11 DEF index

(* Main has a tip. *)
LEMMA TipOfMain ==
  ASSUME Custody
  PROVE  Len(main) \in DOMAIN main /\ Last(main) = main[Len(main)]
<1>1. main \in Seq(Seq(Envelopes)) /\ main # <<>>
  BY DEF Custody, TypeOK
<1>2. QED
  BY <1>1, LastOfSeq

(* Each envelope beyond the genesis came with a true receipt of its own. *)
LEMMA HowTipCame ==
  ASSUME Custody, NEW n \in 2 .. Len(Last(main))
  PROVE  \E r \in receipts :
           /\ r.outcome = "appended" /\ r.index = SubSeq(Last(main), 1, n)
           /\ r.signer \in DOMAIN main /\ main[r.signer] = SubSeq(Last(main), 1, n - 1)
           /\ Last(r.index) = Last(main)[n] /\ Last(main)[n].run = r.run
           /\ ReceiptTrue(r) /\ AppendTrue(r)
<1>1. PICK k \in DOMAIN main : Last(main) = main[k]
  BY TipOfMain
<1>2. n \in 2 .. Len(main[k])
  BY <1>1
<1>3. PICK r \in receipts :
           /\ r.outcome = "appended" /\ r.index = SubSeq(main[k], 1, n)
           /\ r.signer + 1 \in DOMAIN main /\ main[r.signer + 1] = r.index
           /\ r.signer \in DOMAIN main /\ main[r.signer] = SubSeq(main[k], 1, n - 1)
           /\ Last(r.index) = main[k][n] /\ main[k][n] \in Envelopes
           /\ main[k][n].run = r.run /\ main[k][n].attempt = r.attempt
           /\ ReceiptTrue(r) /\ AppendTrue(r)
  BY <1>2, HowItCame
<1>4. QED
  BY <1>1, <1>3

(* Main, the runs and the receipts are well typed, and however many runs    *)
(* are queued, one runs and one waits: the workflow's concurrency group.    *)
THEOREM QueueTypeCorrect == Spec => []TypeOK
<1>1. Custody => TypeOK
  BY DEF Custody
<1>2. QED
  BY <1>1, CustodyKept, PTL

(* Every envelope answers a request made for exactly the index it extends,  *)
(* and no request is committed twice, for any number of runs and attempts.  *)
THEOREM EnvelopesAnswerPrefix == Spec => []AnswersItsPrefix
<1>1. ASSUME Custody, NEW n \in 2 .. Len(Last(main))
      PROVE  RequestOf(Last(main)[n]).expected = SubSeq(Last(main), 1, n - 1)
  <2>1. PICK r \in receipts :
          /\ r.outcome = "appended"
          /\ main[r.signer] = SubSeq(Last(main), 1, n - 1)
          /\ Last(main)[n].run = r.run /\ ReceiptTrue(r) /\ AppendTrue(r)
    BY <1>1, HowTipCame
  <2>2. r.request = run[r.run].request
    BY <2>1 DEF ReceiptTrue
  <2>3. r.request.expected = main[r.signer]
    BY <2>1 DEF AppendTrue
  <2>4. QED
    BY <2>1, <2>2, <2>3 DEF RequestOf
<1>2. ASSUME Custody, NEW n \in 2 .. Len(Last(main)), NEW m \in 2 .. n - 1
      PROVE  RequestOf(Last(main)[m]) # RequestOf(Last(main)[n])
  <2>1. Last(main) \in Seq(Envelopes) /\ Len(Last(main)) \in Nat
    BY <1>2, TipOfMain, TreeHasGenesis, LenProperties
  <2>2. /\ m \in 2 .. Len(Last(main))
        /\ n - 1 \in 0 .. Len(Last(main)) /\ m - 1 \in 0 .. Len(Last(main))
    BY <2>1
  <2>3. /\ Len(SubSeq(Last(main), 1, n - 1)) = n - 1
        /\ Len(SubSeq(Last(main), 1, m - 1)) = m - 1
    BY <2>1, <2>2, SubSeqOfSeq
  <2>4. /\ RequestOf(Last(main)[n]).expected = SubSeq(Last(main), 1, n - 1)
        /\ RequestOf(Last(main)[m]).expected = SubSeq(Last(main), 1, m - 1)
    BY <1>1, <1>2, <2>2
  <2>5. n - 1 # m - 1
    OBVIOUS
  <2>6. QED
    BY <2>3, <2>4, <2>5
<1>3. Custody => AnswersItsPrefix
  BY <1>1, <1>2 DEF AnswersItsPrefix
<1>4. QED
  BY <1>3, CustodyKept, PTL

(* A run that concluded as success has its event on main and keeps it.      *)
THEOREM SuccessesCommitted == Spec => []SuccessMeansCommitted
<1>1. Custody => SuccessMeansCommitted
  BY DEF Custody
<1>2. QED
  BY <1>1, CustodyKept, PTL

(* Nothing is on main whose receipt was not uploaded before it.             *)
THEOREM CommitsReceipted == Spec => []CommitsAreReceipted
<1>1. Custody => CommitsAreReceipted
  BY HowTipCame DEF CommitsAreReceipted
<1>2. QED
  BY <1>1, CustodyKept, PTL

(* A receipt that verifies against a ciphertext on main tells of an event   *)
(* that is committed, and is the only append receipt that does.             *)
THEOREM VerifiedCommitted == Spec => []VerifiedMeansCommitted
<1>1. ASSUME Custody, NEW r \in receipts, NEW n \in DOMAIN main,
             r.outcome = "appended", Last(r.index) = Last(main[n])
      PROVE  /\ r.signer + 1 \in DOMAIN main /\ main[r.signer + 1] = r.index
             /\ r.request.expected = main[r.signer]
             /\ \A q \in receipts :
                  q.outcome = "appended" /\ Last(q.index) = Last(main[n]) => q = r
  <2> DEFINE index == main[n]
             env   == Last(index)
  <2>1. /\ index \in Seq(Envelopes) /\ Len(index) \in DOMAIN index
        /\ env = index[Len(index)] /\ DOMAIN index = 1 .. Len(index)
        /\ Len(index) \in Nat
    BY <1>1, TreeHasGenesis, LenProperties
  <2>2. ASSUME NEW q \in receipts, q.outcome = "appended", Last(q.index) = env
        PROVE  ReceiptTrue(q) /\ AppendTrue(q) /\ env.run = q.run /\ env.attempt = q.attempt
    <3>1. ReceiptTrue(q) /\ AppendTrue(q)
      BY <1>1, <2>2 DEF Custody, ReceiptTrue
    <3> HIDE DEF env
    <3>2. QED
      BY <2>2, <3>1 DEF AppendTrue, Envelope
  <2>3. env.run \in Runs
    BY <1>1, <2>2 DEF ReceiptTrue
  <2>4. Len(index) # 1
    <3>1. index[1].run = None
      BY <1>1 DEF Custody, IndexTrue, GenesisIndex, Envelope
    <3>2. QED
      BY <2>1, <2>3, <3>1, WorkflowAssumption
  <2>5. Len(index) \in 2 .. Len(index) /\ SubSeq(index, 1, Len(index)) = index
    BY <2>1, <2>4, SubSeqFull
  <2>6. PICK t \in receipts :
          /\ t.outcome = "appended" /\ t.index = index
          /\ t.signer + 1 \in DOMAIN main /\ main[t.signer + 1] = t.index
    <3>1. Receipted(index, Len(index))
      BY <1>1, <2>5 DEF Custody, IndexTrue
    <3> HIDE DEF index
    <3>2. QED
      BY <2>5, <3>1 DEF Receipted
  <2>7. \A q \in receipts : q.outcome = "appended" /\ Last(q.index) = env => q = r
    BY <1>1, <2>2 DEF ReceiptTrue
  <2>8. t = r
    BY <2>6, <2>7
  <2>9. r.request.expected = main[r.signer]
    BY <1>1, <2>2 DEF AppendTrue
  <2>10. QED
    BY <2>6, <2>7, <2>8, <2>9
<1>2. Custody => VerifiedMeansCommitted
  BY <1>1 DEF VerifiedMeansCommitted, Verifies
<1>3. QED
  BY <1>2, CustodyKept, PTL

-----------------------------------------------------------------------------
(* What a rejection says of the registry: it is of the index that the run   *)
(* was pinned to, which is the index that was asked about.                  *)
RefusalTrue(r) ==
  r.outcome = "rejected" => r.index = main[r.signer] /\ r.request.expected = r.index

(* An attempt that is past the append step. *)
Decided(rec) == rec.status # "idle" /\ rec.step \in {"attest", "commit", "pushed"}

RefusalsTrue ==
  /\ \A i \in Runs : Decided(run[i]) => RefusalTrue(Receipt(i, run[i].index))
  /\ \A r \in receipts : RefusalTrue(r)

(* A run is decided by its append step alone. *)
KeepsDecision(i) ==
  Decided(run'[i]) =>
    /\ Decided(run[i])
    /\ run'[i].sha = run[i].sha /\ run'[i].request = run[i].request
    /\ run'[i].attempt = run[i].attempt /\ run'[i].outcome = run[i].outcome
    /\ run'[i].index = run[i].index

(* What main holds stays where it is. *)
LEMMA MainStays ==
  ASSUME Custody, [Next]_vars
  PROVE  \A n \in DOMAIN main : main'[n] = main[n]
<1>1. main \in Seq(Seq(Envelopes)) /\ main # <<>>
  BY DEF Custody, TypeOK
<1>2. ASSUME NEW index \in Seq(Envelopes), main' = Append(main, index)
      PROVE  \A n \in DOMAIN main : main'[n] = main[n]
  BY <1>1, <1>2, AppendProperties, LenProperties
<1>3. CASE MergeCode
  BY <1>1, <1>2, <1>3, LastOfSeq DEF MergeCode
<1>4. ASSUME NEW i \in Runs, Push(i) PROVE \A n \in DOMAIN main : main'[n] = main[n]
  BY <1>2, <1>4, PushBrings
<1>5. CASE UNCHANGED main
  BY <1>5
<1>6. ASSUME NEW i \in Runs, Step(i), ~ Push(i) PROVE UNCHANGED main
  BY <1>6 DEF Step, CheckRef, AppendEvent, UploadReceipt, Reject, PushRefused, Conclude, Fail
<1>7. ASSUME NEW i \in Runs, Dispatch(i) \/ Rerun(i) \/ Start(i) \/ Interrupt(i)
      PROVE  UNCHANGED main
  BY <1>7 DEF Dispatch, Rerun, Start, Interrupt, Fail
<1>8. UNCHANGED vars => UNCHANGED main
  BY DEF vars
<1>9. QED
  BY <1>3, <1>4, <1>5, <1>6, <1>7, <1>8 DEF Next

(* No step but an append decides. *)
LEMMA DecisionsKept ==
  ASSUME Custody, [Next]_vars, \A i \in Runs : ~ AppendEvent(i), NEW j \in Runs
  PROVE  KeepsDecision(j)
<1>1. run[j].status # "idle" => run[j] \in Attempts
  BY IsAttempt DEF Custody
<1>2. DOMAIN run = Runs
  BY DEF Custody, TypeOK
<1>3. ASSUME NEW i \in Runs, NEW rec, Enqueue(i, rec), rec.step = "check"
      PROVE  KeepsDecision(j)
  <2>1. CASE j = i
    BY <1>3, <2>1 DEF Enqueue, KeepsDecision, Decided
  <2>2. CASE j # i /\ run[j].status = "pending"
    <3>1. run'[j] = [run[j] EXCEPT !.status = "cancelled"] /\ run[j] \in Attempts
      BY <1>1, <1>3, <2>2 DEF Enqueue
    <3>2. QED
      BY <2>2, <3>1 DEF KeepsDecision, Decided, Attempts
  <2>3. CASE j # i /\ run[j].status # "pending"
    BY <1>3, <2>3 DEF Enqueue, KeepsDecision
  <2>4. QED
    BY <2>1, <2>2, <2>3
<1>4. ASSUME NEW i \in Runs, Dispatch(i) PROVE KeepsDecision(j)
  <2>1. PICK rec : Enqueue(i, rec) /\ rec.step = "check"
    BY <1>4 DEF Dispatch
  <2>2. QED
    BY <1>3, <2>1
<1>5. ASSUME NEW i \in Runs, Rerun(i) PROVE KeepsDecision(j)
  <2>1. run[i] \in Attempts
    BY <1>5, IsAttempt DEF Custody, Rerun
  <2>2. PICK rec : rec = [run[i] EXCEPT !.status = "pending", !.step = "check",
                            !.attempt = @ + 1, !.outcome = "none", !.index = <<>>]
    OBVIOUS
  <2>3. Enqueue(i, rec) /\ rec.step = "check"
    BY <1>5, <2>1, <2>2 DEF Rerun, Attempts
  <2>4. QED
    BY <1>3, <2>3
<1>6. ASSUME NEW i \in Runs, NEW status, run[i].status # "idle",
             run' = [run EXCEPT ![i].status = status]
      PROVE  KeepsDecision(j)
  BY <1>1, <1>2, <1>6 DEF KeepsDecision, Decided, Attempts
<1>7. ASSUME NEW i \in Runs, Start(i) \/ Interrupt(i) \/ Conclude(i) PROVE KeepsDecision(j)
  BY <1>6, <1>7 DEF Start, Interrupt, Conclude, Fail, At
<1>8. ASSUME NEW i \in Runs, Reject(i) \/ PushRefused(i) PROVE KeepsDecision(j)
  BY <1>6, <1>8 DEF Reject, PushRefused, Fail, At
<1>9. ASSUME NEW i \in Runs, CheckRef(i) PROVE KeepsDecision(j)
  <2>1. run[i].status # "idle" /\ run[i] \in Attempts
    BY <1>9, IsAttempt DEF CheckRef, At, Custody
  <2>2. CASE Fail(i)
    BY <1>6, <2>1, <2>2 DEF Fail
  <2>3. CASE run' = [run EXCEPT ![i].step = run[i].kind]
    <3>1. run[i].kind = "append"
      BY <2>1 DEF Attempts
    <3>2. QED
      BY <1>1, <1>2, <2>1, <2>3, <3>1 DEF KeepsDecision, Decided, Attempts
  <2>4. QED
    BY <1>9, <2>2, <2>3 DEF CheckRef
<1>10. ASSUME NEW i \in Runs, UploadReceipt(i) \/ Push(i) PROVE KeepsDecision(j)
  <2>1. /\ run[i].status # "idle" /\ run[i].step \in {"attest", "commit"}
        /\ run[i] \in Attempts
    BY <1>10, IsAttempt DEF UploadReceipt, Push, At, Custody
  <2>2. PICK step : run' = [run EXCEPT ![i].step = step]
    BY <1>10 DEF UploadReceipt, Push
  <2>3. QED
    BY <1>1, <1>2, <2>1, <2>2 DEF KeepsDecision, Decided, Attempts
<1>11. CASE UNCHANGED run
  BY <1>11 DEF KeepsDecision
<1>12. QED
  BY <1>4, <1>5, <1>7, <1>8, <1>9, <1>10, <1>11 DEF Next, Step, MergeCode, vars

(* A rejection is of the tree that the append step reads. *)
LEMMA AppendDecides ==
  ASSUME Custody, RefusalsTrue, NEW i \in Runs, AppendEvent(i), NEW j \in Runs,
         Decided(run'[j])
  PROVE  RefusalTrue(Receipt(j, run[j].index))'
<1>1. /\ run[i].status = "running" /\ run[i].step = "append" /\ run[i] \in Attempts
      /\ DOMAIN run = Runs
  BY IsAttempt DEF AppendEvent, At, Custody, TypeOK
<1>2. UNCHANGED main
  BY DEF AppendEvent, Fail
<1>3. CASE j # i
  <2>1. run'[j] = run[j]
    BY <1>1, <1>3 DEF AppendEvent, Fail
  <2>2. RefusalTrue(Receipt(j, run[j].index))
    BY <2>1 DEF RefusalsTrue, Decided
  <2>3. QED
    BY <1>2, <2>1, <2>2 DEF RefusalTrue, Receipt
<1>4. CASE j = i
  <2>1. CASE Fail(i)
    BY <1>1, <1>4, <2>1 DEF Fail, Decided, Attempts
  <2>2. CASE ~ Fail(i)
    <3>1. run[i].request.expected = TreeIndex(i)
      BY <2>2 DEF AppendEvent, FreshRequest
    <3>2. PICK outcome, result :
            /\ run' = [run EXCEPT ![i].step = "attest", ![i].outcome = outcome,
                                  ![i].index = result]
            /\ outcome = "rejected" => result = TreeIndex(i)
      <4> DEFINE Decides(o, index) ==
                   run' = [run EXCEPT ![i].step = "attest", ![i].outcome = o,
                                      ![i].index = index]
                 log == Registry(TreeIndex(i))
                 env(now) == Envelope(Append(log, Stamp(log, run[i].request.eventData, now)),
                                      now, i, run[i].attempt)
      <4>1. \E now \in Time :
              \/ Decides("rejected", TreeIndex(i))
              \/ Decides("appended", NextIndex(TreeIndex(i), env(now)))
        BY <2>2 DEF AppendEvent
      <4> HIDE DEF Decides, env
      <4>2. \E o, index :
              Decides(o, index) /\ (o = "rejected" => index = TreeIndex(i))
        BY <4>1
      <4>3. QED
        BY <4>2 DEF Decides
    <3>3. /\ run'[i].outcome = outcome /\ run'[i].index = result
          /\ run'[i].sha = run[i].sha /\ run'[i].request = run[i].request
      BY <1>1, <3>2 DEF Attempts
    <3>4. QED
      BY <1>2, <1>4, <3>1, <3>2, <3>3 DEF RefusalTrue, Receipt, TreeIndex
  <2>3. QED
    BY <2>1, <2>2
<1>5. QED
  BY <1>3, <1>4

(* Rejections stay true, whatever else happens. *)
LEMMA RefusalsNext ==
  ASSUME Custody, RefusalsTrue, [Next]_vars
  PROVE  RefusalsTrue'
<1>1. \A n \in DOMAIN main : main'[n] = main[n]
  BY MainStays
<1>2. ASSUME NEW r, r.signer \in DOMAIN main, RefusalTrue(r) PROVE RefusalTrue(r)'
  BY <1>1, <1>2 DEF RefusalTrue
<1>3. ASSUME NEW j \in Runs, Decided(run'[j]) PROVE RefusalTrue(Receipt(j, run[j].index))'
  <2>1. CASE \E i \in Runs : AppendEvent(i)
    BY <1>3, <2>1, AppendDecides
  <2>2. CASE \A i \in Runs : ~ AppendEvent(i)
    <3>1. KeepsDecision(j)
      BY <2>2, DecisionsKept
    <3>2. PICK rc : rc = Receipt(j, run[j].index)
      OBVIOUS
    <3>3. Receipt(j, run[j].index)' = rc
      BY <1>3, <3>1, <3>2 DEF KeepsDecision, Receipt
    <3>4. RefusalTrue(rc) /\ rc.signer \in DOMAIN main
      BY <1>3, <3>1, <3>2 DEF KeepsDecision, Decided, RefusalsTrue, Custody, RunTrue, Receipt
    <3>5. RefusalTrue(rc)'
      BY <1>2, <3>4
    <3>6. QED
      BY <3>3, <3>5 DEF RefusalTrue
  <2>3. QED
    BY <2>1, <2>2
<1>4. ASSUME NEW r \in receipts' PROVE RefusalTrue(r)'
  <2>1. CASE r \in receipts
    <3>1. r.signer \in DOMAIN main
      BY <2>1 DEF Custody, ReceiptTrue, RunTrue
    <3>2. QED
      BY <1>2, <2>1, <3>1 DEF RefusalsTrue
  <2>2. CASE r \notin receipts
    <3>1. PICK i \in Runs : UploadReceipt(i)
      BY <1>4, <2>2 DEF Next, Step, Dispatch, Rerun, Start, CheckRef, AppendEvent, Reject,
         Push, PushRefused, Conclude, Interrupt, Fail, MergeCode, vars
    <3>2. r = Receipt(i, run[i].index) /\ Decided(run[i]) /\ run[i].status # "idle"
      BY <1>4, <2>2, <3>1 DEF UploadReceipt, At, Decided
    <3>3. RefusalTrue(r) /\ r.signer \in DOMAIN main
      BY <3>2 DEF RefusalsTrue, Custody, RunTrue, Receipt
    <3>4. QED
      BY <1>2, <3>3
  <2>3. QED
    BY <2>1, <2>2
<1>5. QED
  BY <1>3, <1>4 DEF RefusalsTrue

(* No envelope on main, at any commit, is of a rejected attempt. *)
LEMMA RejectedLeavesNothing ==
  ASSUME Custody, NEW r \in receipts, r.outcome = "rejected",
         NEW n \in DOMAIN main, NEW m \in DOMAIN main[n]
  PROVE  <<main[n][m].run, main[n][m].attempt>> # <<r.run, r.attempt>>
<1>1. /\ main[n] \in Seq(Envelopes) /\ main[n][1] = GenesisIndex[1]
      /\ ReceiptTrue(r)
  BY TreeHasGenesis DEF Custody, IndexTrue
<1>2. m \in 1 .. Len(main[n]) /\ Len(main[n]) \in Nat
  BY <1>1, LenProperties
<1>3. CASE m = 1
  <2>1. main[n][m].run = None
    BY <1>1, <1>3 DEF GenesisIndex, Envelope
  <2>2. r.run \in Runs
    BY <1>1 DEF ReceiptTrue
  <2>3. QED
    BY <2>1, <2>2, WorkflowAssumption
<1>4. CASE m # 1
  <2>1. m \in 2 .. Len(main[n])
    BY <1>2, <1>4
  <2>2. PICK q \in receipts :
          /\ q.outcome = "appended"
          /\ main[n][m].run = q.run /\ main[n][m].attempt = q.attempt
    BY <2>1, HowItCame
  <2>3. q # r
    BY <2>2
  <2>4. QED
    BY <1>1, <2>2, <2>3 DEF ReceiptTrue
<1>5. QED
  BY <1>3, <1>4

(* A rejected attempt has nothing on main, then or later, and never counts  *)
(* as a success; its receipt is of the registry that was asked about        *)
(* (append-encrypted-registry.yml:170-174).                                 *)
THEOREM RejectedStaysRejected == Spec => []RejectionsStand
<1>1. Init => RefusalsTrue
  BY DEF Init, RefusalsTrue, Decided
<1>2. Custody /\ RefusalsTrue /\ [Next]_vars => RefusalsTrue'
  BY RefusalsNext
<1>3. Custody /\ RefusalsTrue => RejectionsStand
  <2> SUFFICES ASSUME Custody, RefusalsTrue, NEW r \in receipts, r.outcome = "rejected"
               PROVE  /\ r.signer \in DOMAIN main /\ r.index = main[r.signer]
                      /\ r.request.expected = r.index
                      /\ <<r.run, r.attempt>> \notin succeeded
                      /\ \A n \in DOMAIN main : \A m \in DOMAIN main[n] :
                           <<main[n][m].run, main[n][m].attempt>> # <<r.run, r.attempt>>
    BY DEF RejectionsStand
  <2>1. r.signer \in DOMAIN main
    BY DEF Custody, ReceiptTrue, RunTrue
  <2>2. r.index = main[r.signer] /\ r.request.expected = r.index
    BY DEF RefusalsTrue, RefusalTrue
  <2>3. \A n \in DOMAIN main : \A m \in DOMAIN main[n] :
          <<main[n][m].run, main[n][m].attempt>> # <<r.run, r.attempt>>
    BY RejectedLeavesNothing
  <2>4. <<r.run, r.attempt>> \notin succeeded
    <3>1. ASSUME <<r.run, r.attempt>> \in succeeded PROVE FALSE
      <4>1. PICK m \in DOMAIN Last(main) :
              <<Last(main)[m].run, Last(main)[m].attempt>> = <<r.run, r.attempt>>
        BY <3>1 DEF Custody, SuccessMeansCommitted
      <4>2. QED
        BY <2>3, <4>1, TipOfMain
    <3>2. QED
      BY <3>1
  <2>5. QED
    BY <2>1, <2>2, <2>3, <2>4
<1>4. QED
  BY <1>1, <1>2, <1>3, CustodyKept, PTL DEF Spec

(* The event a receipt tells of: an accepted one, stamped with the time of  *)
(* its envelope, at the end of the history the envelope encrypts.           *)
LEMMA ReceiptedEvent ==
  ASSUME Custody, NEW r \in receipts, r.outcome = "appended"
  PROVE  LET prior == main[r.signer]
             log   == Registry(prior)
             env   == Last(r.index)
             e     == Stamp(log, r.request.eventData, env.issuedAt)
         IN /\ r.signer \in DOMAIN main /\ r.request.eventData \in Requests
            /\ env.issuedAt \in Time /\ Len(log) < MaxEvents
            /\ log \in Seq(Event) /\ e \in Event /\ e.issuedAt = env.issuedAt
            /\ EventOk(log, e) /\ log = Last(prior).snapshot
            /\ env.snapshot = Append(log, e)
            /\ Last(prior).issuedAt <= env.issuedAt
            /\ r.request.eventData.eventType \in EventTypes
<1> DEFINE prior == main[r.signer]
           log   == Registry(prior)
           env   == Last(r.index)
           e     == Stamp(log, r.request.eventData, env.issuedAt)
<1>1. ReceiptTrue(r) /\ AppendTrue(r)
  BY DEF Custody, ReceiptTrue
<1>2. r.run \in Runs /\ run[r.run].status # "idle"
  BY <1>1 DEF ReceiptTrue
<1>3. run[r.run] \in Attempts
  BY <1>2, IsAttempt DEF Custody
<1>4. r.signer \in DOMAIN main /\ r.request.eventData \in Requests
  BY <1>1, <1>2, <1>3 DEF Custody, ReceiptTrue, RunTrue, Attempts
<1>5. prior \in Seq(Envelopes) /\ log = Last(prior).snapshot
  BY <1>4, TreeHasGenesis
<1>6. log \in Seq(Event)
  BY <1>5, RegistryOfIndex
<1>7. /\ env.issuedAt \in Time /\ Len(log) < MaxEvents /\ EventOk(log, e)
      /\ Last(prior).issuedAt <= env.issuedAt /\ env.snapshot = Append(log, e)
  BY <1>1 DEF AppendTrue, Envelope
<1>8. env.issuedAt \in Nat /\ r.request.eventData \in Request
  BY <1>4, <1>7, WorkflowAssumption
<1> HIDE DEF env, log
<1>9. e \in Event /\ e.issuedAt = env.issuedAt /\ r.request.eventData.eventType \in EventTypes
  BY <1>6, <1>7, <1>8, StampIsEvent
<1>10. QED
  BY <1>4, <1>5, <1>6, <1>7, <1>9 DEF env, log

(* The public index on main validates whatever clocks the runners have: no  *)
(* append leaves an index that stops the later ones.                        *)
THEOREM IndexValidates == Spec => []PublicIndexValid
<1>1. ASSUME Custody, NEW n \in 2 .. Len(Last(main))
      PROVE  /\ Last(main)[n - 1].issuedAt <= Last(main)[n].issuedAt
             /\ Front(Last(main)[n].snapshot) = Last(main)[n - 1].snapshot
             /\ Last(Last(main)[n].snapshot).issuedAt = Last(main)[n].issuedAt
  <2> DEFINE index == Last(main)
  <2>1. Len(main) \in DOMAIN main /\ index = main[Len(main)]
    BY <1>1, TipOfMain
  <2>2. index \in Seq(Envelopes)
    BY <1>1, <2>1, TreeHasGenesis
  <2>3. PICK r \in receipts :
          /\ r.outcome = "appended" /\ r.signer \in DOMAIN main
          /\ main[r.signer] = SubSeq(index, 1, n - 1) /\ Last(r.index) = index[n]
    BY <1>1, HowTipCame
  <2>4. Last(main[r.signer]) = index[n - 1]
    <3>1. n - 1 \in 0 .. Len(index) /\ n - 1 \in 1 .. (n - 1)
      BY <2>2, LenProperties
    <3> HIDE DEF index
    <3>2. Len(main[r.signer]) = n - 1 /\ main[r.signer][n - 1] = index[n - 1]
      BY <2>2, <2>3, <3>1, SubSeqOfSeq
    <3>3. QED
      BY <1>1, <2>3, <3>2, TreeHasGenesis
  <2> HIDE DEF index
  <2> DEFINE log == Registry(main[r.signer])
             e   == Stamp(log, r.request.eventData, index[n].issuedAt)
  <2>5. /\ log \in Seq(Event) /\ e \in Event /\ e.issuedAt = index[n].issuedAt
        /\ log = index[n - 1].snapshot /\ index[n].snapshot = Append(log, e)
        /\ index[n - 1].issuedAt <= index[n].issuedAt
    BY <1>1, <2>3, <2>4, ReceiptedEvent
  <2> HIDE DEF log, e
  <2>6. Front(Append(log, e)) = log /\ Last(Append(log, e)) = e
    BY <2>5, OfAppend
  <2>7. QED
    BY <2>5, <2>6 DEF index
<1>2. Custody => PublicIndexValid
  BY <1>1 DEF PublicIndexValid
<1>3. QED
  BY <1>2, CustodyKept, PTL

-----------------------------------------------------------------------------
(* No update is lost: an index, as main shows it at one commit, is kept at  *)
(* all later ones.                                                          *)
IndexKept(index, later) ==
  DOMAIN index \subseteq DOMAIN later /\ \A k \in DOMAIN index : later[k] = index[k]

NothingRewritten == \A m, n \in DOMAIN main : m <= n => IndexKept(main[m], main[n])

(* A commit whose index keeps that of the tip keeps those of all commits.   *)
LEMMA TipExtended ==
  ASSUME main \in Seq(Seq(Envelopes)), main # <<>>, NothingRewritten,
         NEW index \in Seq(Envelopes), main' = Append(main, index),
         IndexKept(Last(main), index)
  PROVE  NothingRewritten'
<1>1. Len(main) \in DOMAIN main /\ Last(main) = main[Len(main)]
  BY LastOfSeq
<1>2. /\ DOMAIN main' = 1 .. (Len(main) + 1) /\ DOMAIN main = 1 .. Len(main)
      /\ main'[Len(main) + 1] = index /\ Len(main) \in Nat
      /\ \A m \in 1 .. Len(main) : main'[m] = main[m]
  BY AppendProperties, LenProperties
<1>3. ASSUME NEW m \in DOMAIN main PROVE IndexKept(main[m], Last(main))
  <2>1. m <= Len(main)
    BY <1>2
  <2>2. IndexKept(main[m], main[Len(main)])
    BY <1>1, <2>1, Zenon DEF NothingRewritten
  <2>3. QED
    BY <1>1, <2>2
<1>4. \A m \in DOMAIN main : IndexKept(main[m], index)
  BY <1>3 DEF IndexKept
<1>5. ASSUME NEW m \in DOMAIN main', NEW n \in DOMAIN main', m <= n
      PROVE  IndexKept(main'[m], main'[n])
  <2>1. CASE n \in DOMAIN main
    <3>1. m \in DOMAIN main
      BY <1>2, <1>5, <2>1
    <3>2. QED
      BY <1>2, <1>5, <2>1, <3>1 DEF NothingRewritten
  <2>2. CASE n = Len(main) + 1 /\ m \in DOMAIN main
    BY <1>2, <1>4, <2>2
  <2>3. CASE m = n
    BY <2>3 DEF IndexKept
  <2>4. QED
    BY <1>2, <1>5, <2>1, <2>2, <2>3
<1>6. QED
  BY <1>5 DEF NothingRewritten

(* An append keeps what it appends to. *)
LEMMA AppendKeepsIndex ==
  ASSUME NEW index \in Seq(Envelopes), NEW env \in Envelopes
  PROVE  IndexKept(index, Append(index, env))
<1>1. /\ DOMAIN Append(index, env) = 1 .. (Len(index) + 1)
      /\ DOMAIN index = 1 .. Len(index) /\ Len(index) \in Nat
      /\ \A k \in 1 .. Len(index) : Append(index, env)[k] = index[k]
  BY AppendProperties, LenProperties
<1>2. QED
  BY <1>1 DEF IndexKept

(* Whatever runs race, an event that main once held is never overwritten or *)
(* dropped by a push made on an older tip: the fast-forward rule of main    *)
(* and the pinned checkout leave no room for a lost update.                 *)
THEOREM NoUpdateLost == Spec => []NothingRewritten
<1>1. ASSUME Init PROVE NothingRewritten
  BY <1>1 DEF Init, NothingRewritten, IndexKept
<1>2. ASSUME Custody, NothingRewritten, [Next]_vars
      PROVE  NothingRewritten'
  <2>1. main \in Seq(Seq(Envelopes)) /\ main # <<>>
    BY <1>2 DEF Custody, TypeOK
  <2>2. CASE main' = main
    BY <1>2, <2>2 DEF NothingRewritten
  <2>3. ASSUME NEW i \in Runs, Push(i) PROVE NothingRewritten'
    <3> DEFINE index == run[i].index
    <3>1. /\ index \in Seq(Envelopes) /\ Last(main) \in Seq(Envelopes)
          /\ Last(index) \in Envelopes /\ index = Append(Last(main), Last(index))
          /\ main' = Append(main, index)
      BY <1>2, <2>3, PushBrings
    <3> HIDE DEF index
    <3>2. IndexKept(Last(main), index)
      BY <3>1, AppendKeepsIndex
    <3>3. QED
      BY <1>2, <2>1, <3>1, <3>2, TipExtended
  <2>4. CASE MergeCode
    <3>1. Last(main) \in Seq(Envelopes) /\ main' = Append(main, Last(main))
      BY <2>1, <2>4, LastOfSeq DEF MergeCode
    <3>2. IndexKept(Last(main), Last(main))
      BY DEF IndexKept
    <3>3. QED
      BY <1>2, <2>1, <3>1, <3>2, TipExtended
  <2>5. ASSUME NEW i \in Runs, AppendEvent(i) PROVE main' = main
    BY <2>5 DEF AppendEvent, Fail
  <2>6. QED
    BY <1>2, <2>2, <2>3, <2>4, <2>5 DEF Next, Step, Dispatch, Rerun, Start, Interrupt, Fail,
       CheckRef, UploadReceipt, Reject, PushRefused, Conclude, vars
<1>3. QED
  BY <1>1, <1>2, CustodyKept, PTL DEF Spec

-----------------------------------------------------------------------------
(* What ciphertexts decrypt to. *)
SnapshotsValid(index) ==
  \A n \in DOMAIN index :
    index[n].snapshot \in Seq(Event) /\ RegistryValid(index[n].snapshot)

SnapshotsHold(index) == \A n \in DOMAIN index : CustodyHolds(index[n].snapshot)

CiphertextsValid == \A m \in DOMAIN main : SnapshotsValid(main[m])

(* An index stays valid when it is extended by one accepted event. *)
LEMMA ExtendedValid ==
  ASSUME NEW prior \in Seq(Envelopes), prior # <<>>, SnapshotsValid(prior),
         NEW r \in Requests, NEW now \in Time, NEW env \in Envelopes,
         EventOk(Registry(prior), Stamp(Registry(prior), r, now)),
         env.snapshot = Append(Registry(prior), Stamp(Registry(prior), r, now))
  PROVE  SnapshotsValid(Append(prior, env))
<1> DEFINE log == Registry(prior)
           e   == Stamp(log, r, now)
<1>1. Len(prior) \in DOMAIN prior /\ Last(prior) = prior[Len(prior)]
  BY LastOfSeq
<1>2. log \in Seq(Event) /\ RegistryValid(log)
  <2>1. log = prior[Len(prior)].snapshot
    BY <1>1 DEF Registry
  <2>2. /\ prior[Len(prior)].snapshot \in Seq(Event)
        /\ RegistryValid(prior[Len(prior)].snapshot)
    BY <1>1, Zenon DEF SnapshotsValid
  <2>3. QED
    BY <2>1, <2>2
<1>3. r \in Request /\ now \in Nat
  BY WorkflowAssumption
<1>4. EventOk(log, e) /\ env.snapshot = Append(log, e)
  OBVIOUS
<1> HIDE DEF log
<1>5. e \in Event
  BY <1>2, <1>3, <1>4, StampIsEvent
<1> HIDE DEF e
<1>6. env.snapshot \in Seq(Event) /\ RegistryValid(env.snapshot)
  BY <1>2, <1>4, <1>5, AppendKeepsValid, AppendProperties
<1>7. /\ DOMAIN Append(prior, env) = 1 .. (Len(prior) + 1) /\ DOMAIN prior = 1 .. Len(prior)
      /\ Append(prior, env)[Len(prior) + 1] = env /\ Len(prior) \in Nat
      /\ \A n \in 1 .. Len(prior) : Append(prior, env)[n] = prior[n]
  BY AppendProperties, LenProperties
<1>8. ASSUME NEW n \in DOMAIN Append(prior, env)
      PROVE  /\ Append(prior, env)[n].snapshot \in Seq(Event)
             /\ RegistryValid(Append(prior, env)[n].snapshot)
  <2>1. CASE n \in DOMAIN prior
    <3>1. Append(prior, env)[n] = prior[n]
      BY <1>7, <2>1
    <3>2. prior[n].snapshot \in Seq(Event) /\ RegistryValid(prior[n].snapshot)
      BY <2>1, Zenon DEF SnapshotsValid
    <3>3. QED
      BY <3>1, <3>2
  <2>2. CASE n = Len(prior) + 1
    <3>1. Append(prior, env)[n] = env
      BY <1>7, <2>2
    <3>2. QED
      BY <1>6, <3>1
  <2>3. QED
    BY <1>7, <2>1, <2>2
<1>9. QED
  BY <1>8, Zenon DEF SnapshotsValid

(* The index of an append receipt is valid, whether it was pushed or not. *)
LEMMA ReceiptedValid ==
  ASSUME Custody, CiphertextsValid, NEW r \in receipts, r.outcome = "appended"
  PROVE  SnapshotsValid(r.index)
<1> DEFINE prior == main[r.signer]
           env   == Last(r.index)
<1>1. /\ r.signer \in DOMAIN main /\ r.request.eventData \in Requests
      /\ env.issuedAt \in Time
      /\ EventOk(Registry(prior), Stamp(Registry(prior), r.request.eventData, env.issuedAt))
      /\ env.snapshot
           = Append(Registry(prior), Stamp(Registry(prior), r.request.eventData, env.issuedAt))
  BY ReceiptedEvent
<1>2. r.index = Append(prior, env) /\ r.index \in Seq(Envelopes)
  BY DEF Custody, ReceiptTrue, AppendTrue
<1>3. prior \in Seq(Envelopes) /\ prior # <<>> /\ SnapshotsValid(prior)
  BY <1>1, TreeHasGenesis DEF CiphertextsValid, Custody, IndexTrue
<1>4. env \in Envelopes
  <2>1. r.index # <<>>
    <3> HIDE DEF prior, env
    <3>1. QED
      BY <1>2, <1>3, AppendProperties, EmptySeq
  <2>2. QED
    BY <1>2, <2>1, LastOfSeq
<1> HIDE DEF prior, env
<1>5. QED
  BY <1>1, <1>2, <1>3, <1>4, ExtendedValid

(* The migration imported a valid history. *)
LEMMA CiphertextsInit == Init => CiphertextsValid
<1>1. SUFFICES ASSUME Init PROVE CiphertextsValid
  OBVIOUS
<1>2. main = <<GenesisIndex>> /\ DOMAIN main = {1}
  BY <1>1 DEF Init
<1>3. SnapshotsValid(GenesisIndex)
  BY WorkflowAssumption DEF SnapshotsValid, GenesisIndex, Envelope
<1>4. QED
  BY <1>2, <1>3 DEF CiphertextsValid

(* What main takes on: a pushed index that was receipted, or, when code is  *)
(* merged, the one it carried.                                              *)
LEMMA CiphertextsNext ==
  ASSUME Custody, CiphertextsValid, [Next]_vars
  PROVE  CiphertextsValid'
<1>1. CASE main' = main
  BY <1>1 DEF CiphertextsValid
<1>2. ASSUME NEW index \in Seq(Envelopes), main' = Append(main, index), SnapshotsValid(index)
      PROVE  CiphertextsValid'
  <2>1. main \in Seq(Seq(Envelopes))
    BY DEF Custody, TypeOK
  <2>2. /\ DOMAIN main' = 1 .. (Len(main) + 1) /\ DOMAIN main = 1 .. Len(main)
        /\ main'[Len(main) + 1] = index /\ Len(main) \in Nat
        /\ \A m \in 1 .. Len(main) : main'[m] = main[m]
    BY <1>2, <2>1, AppendProperties, LenProperties
  <2>3. \A m \in DOMAIN main' : m \in DOMAIN main \/ m = Len(main) + 1
    BY <2>2
  <2>4. QED
    BY <1>2, <2>2, <2>3 DEF CiphertextsValid
<1>3. CASE \E i \in Runs : Push(i)
  <2>1. PICK i \in Runs : Push(i)
    BY <1>3
  <2> DEFINE index == run[i].index
             rc    == Receipt(i, index)
  <2>2. /\ rc \in receipts /\ rc.outcome = "appended" /\ rc.index = index
        /\ index \in Seq(Envelopes) /\ main' = Append(main, index)
    BY <2>1, PushBrings
  <2> HIDE DEF index, rc
  <2>3. SnapshotsValid(index)
    BY <2>2, ReceiptedValid
  <2>4. QED
    BY <1>2, <2>2, <2>3
<1>4. CASE MergeCode
  <2>1. Len(main) \in DOMAIN main /\ Last(main) = main[Len(main)]
    BY TipOfMain
  <2>2. Last(main) \in Seq(Envelopes) /\ SnapshotsValid(Last(main))
    BY <2>1, TreeHasGenesis DEF CiphertextsValid
  <2>3. main' = Append(main, Last(main))
    BY <1>4 DEF MergeCode
  <2>4. QED
    BY <1>2, <2>2, <2>3
<1>5. ASSUME NEW i \in Runs, AppendEvent(i) PROVE main' = main
  BY <1>5 DEF AppendEvent, Fail
<1>6. QED
  BY <1>1, <1>3, <1>4, <1>5 DEF Next, Step, Dispatch, Rerun, Start, Interrupt, Fail, CheckRef,
     UploadReceipt, Reject, PushRefused, Conclude, vars

(* Every ciphertext on main decrypts to a valid registry. *)
LEMMA CiphertextsKept == Spec => []CiphertextsValid
<1>1. Custody /\ Custody' /\ CiphertextsValid /\ [Next]_vars => CiphertextsValid'
  BY CiphertextsNext
<1>2. QED
  BY <1>1, CiphertextsInit, CustodyKept, PTL DEF Spec

(* A valid index holds custody in each of its snapshots. *)
LEMMA ValidIndexHolds ==
  ASSUME NEW index, SnapshotsValid(index)
  PROVE  SnapshotsHold(index)
BY ValidHistoriesHold DEF SnapshotsValid, SnapshotsHold

(* What custodians can decrypt: the ciphertexts of every commit, and those  *)
(* of every receipt of an append, pushed or not.                            *)
HistoriesInCustody ==
  /\ \A m \in DOMAIN main : SnapshotsHold(main[m])
  /\ \A r \in receipts : r.outcome = "appended" => SnapshotsHold(r.index)

(* Whatever runs are queued, lost, repeated or overtaken by merges, each    *)
(* history a custodian decrypts keeps every promise of the registry: truth  *)
(* was sealed before the product ran, a final case ran once, a cohort was   *)
(* released to the tip it ran on, and the rest of CustodyHolds.             *)
THEOREM HistoriesStayInCustody == Spec => []HistoriesInCustody
<1>1. ASSUME Custody, CiphertextsValid PROVE HistoriesInCustody
  <2>1. ASSUME NEW m \in DOMAIN main PROVE SnapshotsHold(main[m])
    BY <1>1, ValidIndexHolds DEF CiphertextsValid
  <2>2. ASSUME NEW r \in receipts, r.outcome = "appended" PROVE SnapshotsHold(r.index)
    BY <1>1, <2>2, ReceiptedValid, ValidIndexHolds
  <2>3. QED
    BY <2>1, <2>2 DEF HistoriesInCustody
<1>2. QED
  BY <1>1, CustodyKept, CiphertextsKept, PTL

-----------------------------------------------------------------------------
(* The custody workflow implements the registry.  A push appends the event  *)
(* of one accepted request; every other step, a merge of code included,     *)
(* leaves what main's latest ciphertext holds as it was.                    *)
LEMMA SameCardinality == \A S : R!Cardinality(S) = Cardinality(S)
BY DEF R!Cardinality, Cardinality

(* The registry reads identities as the workflow does. *)
LEMMA SameBindings == \A e : R!Bindings(e) = Bindings(e)
BY DEF R!Bindings, Bindings, R!IdentityFields, IdentityFields, R!TruthFields, TruthFields,
   R!LegacyOwner, LegacyOwner

(* The registry stamps as the workflow does. *)
LEMMA SameStamp ==
  ASSUME NEW log, NEW r, NEW now
  PROVE  R!Stamp(log, r, now) = Stamp(log, r, now)
BY SameCardinality DEF R!Stamp, Stamp, R!DerivedRelease, DerivedRelease, R!OwnEvents, OwnEvents,
   R!EventsOfCase, EventsOfCase, R!EventsOf, EventsOf, R!LastOf, LastOf, R!FirstOf, FirstOf,
   R!ReleasesOfCorpus, ReleasesOfCorpus

(* The registry accepts what the workflow accepts. *)
LEMMA SameVerdict ==
  ASSUME NEW log, NEW e
  PROVE  R!EventOk(log, e) = EventOk(log, e)
<1>1. R!IdentityOk(log, e) = IdentityOk(log, e)
  BY SameBindings DEF R!IdentityOk, IdentityOk, R!Agree, Agree
<1>2. R!ChainOk(log, e) = ChainOk(log, e)
  BY DEF R!ChainOk, ChainOk
<1>3. R!AssignmentOk(log, e) = AssignmentOk(log, e)
  BY SameCardinality DEF R!AssignmentOk, AssignmentOk, R!GroupOk, GroupOk,
     R!SameInstrument, SameInstrument, R!SameFamily, SameFamily, R!EventsOfCase,
     EventsOfCase, R!EventsOf, EventsOf
<1>4. R!QuarantineOk(e) = QuarantineOk(e)
  BY DEF R!QuarantineOk, QuarantineOk
<1>5. R!ReviewSealOk(log, e) = ReviewSealOk(log, e)
  BY DEF R!ReviewSealOk, ReviewSealOk, R!PropertyUnreviewed, PropertyUnreviewed,
     R!EventsOfCase, EventsOfCase, R!EventsOf, EventsOf
<1>6. R!TruthSealOk(log, e) = TruthSealOk(log, e)
  BY DEF R!TruthSealOk, TruthSealOk, R!AdoptsReview, AdoptsReview, R!EventsOfCase,
     EventsOfCase, R!EventsOf, EventsOf
<1>7. R!SourceReleaseOk(log, e) = SourceReleaseOk(log, e)
  BY DEF R!SourceReleaseOk, SourceReleaseOk, R!ReleasesOfCorpus, ReleasesOfCorpus,
     R!EventsOfCase, EventsOfCase, R!EventsOf, EventsOf
<1>8. R!ConsumeOk(log, e) = ConsumeOk(log, e)
  BY SameCardinality DEF R!ConsumeOk, ConsumeOk, R!CohortComplete, CohortComplete,
     R!TruthsSealed, TruthsSealed, R!ReleasedTo, ReleasedTo, R!Unconsumed,
     Unconsumed, R!FinalConsumes, FinalConsumes, R!CasesIn, CasesIn, R!AssignedTo,
     AssignedTo, R!EventsOfCampaign, EventsOfCampaign, R!EventsOfCase, EventsOfCase,
     R!EventsOf, EventsOf
<1>9. R!ExecutionSealOk(log, e) = ExecutionSealOk(log, e)
  BY DEF R!ExecutionSealOk, ExecutionSealOk, R!EventsOfCampaign, EventsOfCampaign,
     R!EventsOf, EventsOf
<1>10. R!JudgeChallengeOk(log, e) = JudgeChallengeOk(log, e)
  BY DEF R!JudgeChallengeOk, JudgeChallengeOk, R!EventsOfRole, EventsOfRole,
     R!EventsOfCampaign, EventsOfCampaign, R!EventsOf, EventsOf
<1>11. R!JudgeSealOk(log, e) = JudgeSealOk(log, e)
  BY DEF R!JudgeSealOk, JudgeSealOk, R!EventsOfRole, EventsOfRole,
     R!EventsOfCampaign, EventsOfCampaign, R!EventsOf, EventsOf
<1>12. R!TypeSpecificOk(log, e) = TypeSpecificOk(log, e)
  BY <1>3, <1>4, <1>5, <1>6, <1>7, <1>8, <1>9, <1>10, <1>11
     DEF R!TypeSpecificOk, TypeSpecificOk
<1>13. QED
  BY <1>1, <1>2, <1>12 DEF R!EventOk, EventOk

(* A push of an appended index is one protected append of the registry. *)
LEMMA PushSubmits ==
  ASSUME Custody, NEW i \in Runs, Push(i)
  PROVE  R!Next
<1> DEFINE index == run[i].index
           rc    == Receipt(i, index)
           prior == Last(main)
           log   == Registry(prior)
           now   == Last(index).issuedAt
           r     == rc.request.eventData
           e     == Stamp(log, r, now)
<1>1. /\ rc \in receipts /\ rc.outcome = "appended" /\ rc.index = index
      /\ rc.signer = Len(main) /\ prior = main[rc.signer]
      /\ index \in Seq(Envelopes) /\ index = Append(prior, Last(index))
      /\ prior \in Seq(Envelopes) /\ Last(index) \in Envelopes
      /\ main' = Append(main, index) /\ main \in Seq(Seq(Envelopes))
  BY PushBrings DEF Custody, TypeOK
<1>2. Last(main') = index /\ index # <<>>
  <2> HIDE DEF index, rc
  <2>1. QED
    BY <1>1, OfAppend
<1>3. /\ r \in Requests /\ now \in Time /\ Len(log) < MaxEvents
      /\ EventOk(log, e) /\ Last(index).snapshot = Append(log, e)
      /\ r.eventType \in EventTypes
  <2> HIDE DEF index, rc
  <2>1. QED
    BY <1>1, ReceiptedEvent
<1>4. Committed = log
  BY DEF Committed
<1>5. Committed' = Append(log, e)
  BY <1>2, <1>3 DEF Committed, Registry
<1> HIDE DEF r, now, log, e
<1>6. R!Submit(r.eventType)
  <2>1. R!Stamp(Committed, r, now) = e /\ R!EventOk(Committed, e)
    BY <1>3, <1>4, SameStamp, SameVerdict DEF e
  <2>2. r \in R!RequestsFor(r.eventType)
    BY <1>3 DEF R!RequestsFor
  <2>3. QED
    BY <1>3, <1>4, <1>5, <2>1, <2>2 DEF R!Submit
<1>7. QED
  BY <1>3, <1>6 DEF EventTypes, R!Next, R!QuarantineLegacy, R!Assign, R!SealReview,
     R!SealTruth, R!ReleaseSource, R!Consume, R!SealExecution, R!ChallengeJudge,
     R!SealJudge

(* No step but a push changes the committed history. *)
LEMMA OthersStutter ==
  ASSUME Custody, [Next]_vars, ~\E i \in Runs : Push(i)
  PROVE  Committed' = Committed
<1>1. CASE main' = main
  BY <1>1 DEF Committed
<1>2. CASE MergeCode
  <2>1. main \in Seq(Seq(Envelopes)) /\ main # <<>>
    BY DEF Custody, TypeOK
  <2>2. Last(main) \in Seq(Envelopes) /\ main' = Append(main, Last(main))
    BY <1>2, <2>1, LastOfSeq DEF MergeCode
  <2>3. Last(main') = Last(main)
    BY <2>1, <2>2, OfAppend
  <2>4. QED
    BY <2>3 DEF Committed
<1>3. ASSUME NEW i \in Runs, Fail(i) \/ ~Fail(i), AppendEvent(i) PROVE main' = main
  BY <1>3 DEF AppendEvent, Fail
<1>4. QED
  BY <1>1, <1>2, <1>3 DEF Next, Step, Dispatch, Rerun, Start, Interrupt, Fail, CheckRef,
     UploadReceipt, Reject, PushRefused, Conclude, vars

THEOREM WorkflowImplementsRegistry == Spec => ImplementsRegistry
<1>1. Init => R!Init
  <2> SUFFICES ASSUME Init PROVE Committed = Genesis
    BY DEF R!Init
  <2>1. Last(main) = GenesisIndex
    BY DEF Init, Last
  <2>2. Last(GenesisIndex).snapshot = Genesis /\ GenesisIndex # <<>>
    BY DEF GenesisIndex, Envelope, Last
  <2>3. QED
    BY <2>1, <2>2 DEF Committed, Registry
<1>2. Custody /\ [Next]_vars => [R!Next]_Committed
  BY PushSubmits, OthersStutter
<1>3. QED
  BY <1>1, <1>2, CustodyKept, PTL DEF Spec, R!Spec, ImplementsRegistry

===============================================================================
