------------------------ MODULE GenesisMigrationProofs ------------------------
(***************************************************************************)
(* Theorems about the migration beside the append workflow, from an empty  *)
(* index, for every frozen log, private repository, set of runs and clock. *)
(* The inductive invariant Anchored says that whatever an index on main    *)
(* holds is bound to the anchors, and what a run that may push has in its  *)
(* hands: an append of one accepted event to the index of its commit, or   *)
(* the anchored registry, if that index is empty.                          *)
(***************************************************************************)
EXTENDS GenesisMigration, AppendWorkflowProofs

-----------------------------------------------------------------------------
(* An index that extends a prior one, not empty, by one accepted event. *)
Extends(prior, index) ==
  /\ prior # <<>>
  /\ \E r \in Requests, now \in Time, env \in Envelopes :
       LET log == Registry(prior)
           e   == Stamp(log, r, now)
       IN /\ Len(log) < MaxEvents /\ EventOk(log, e)
          /\ env.snapshot = Append(log, e) /\ index = Append(prior, env)

(* The first index, after no other: the anchored registry. *)
Imported(prior, index) ==
  /\ prior = <<>> /\ AnchorsBind(Genesis)
  /\ \E env \in Envelopes : env.snapshot = Genesis /\ index = <<env>>

(* What a run has in its hands, over these commits. *)
HandsTrue(commits, rec) ==
  rec.status # "idle" =>
    /\ rec.sha \in DOMAIN commits
    /\ rec.step \in {"attest", "commit"} => rec.outcome \in {"appended", "rejected", "migrated"}
    /\ rec.outcome = "appended" => Extends(commits[rec.sha], rec.index)
    /\ rec.outcome = "migrated" => Imported(commits[rec.sha], rec.index)

BoundIndex(index) == \A m \in DOMAIN index : AnchorsBind(index[m].snapshot)

(* A migration has no request and no receipt. *)
Migrations ==
  [status : {"pending", "running", "success", "failure", "cancelled"},
   kind : {"migrate"}, step : {"check", "migrate", "commit", "pushed"},
   attempt : 1 .. MaxAttempts, sha : Nat \ {0},
   outcome : {"none", "migrated"}, index : Seq(Envelopes)]

Records == [status : {"idle"}] \cup Attempts \cup Migrations

Anchored ==
  /\ main \in Seq(Seq(Envelopes)) /\ main # <<>>
  /\ run \in [Runs -> Records]
  /\ \A r \in receipts : r.index \in Seq(Envelopes)
  /\ \A i \in Runs : HandsTrue(main, run[i])
  /\ \A n \in DOMAIN main : BoundIndex(main[n])

-----------------------------------------------------------------------------
(* A history bound to the anchors stays bound when it grows. *)
LEMMA BindsGrown ==
  ASSUME NEW h \in Seq(Event), NEW e \in Event, AnchorsBind(h)
  PROVE  AnchorsBind(Append(h, e))
<1> SUFFICES ASSUME NEW a \in Range(Anchors)
             PROVE  /\ IsPrefix(a.root, Append(h, e))
                    /\ Last(a.root).eventType = a.kind
  BY DEF AnchorsBind
<1>1. /\ IsPrefix(a.root, h) /\ Last(a.root).eventType = a.kind
      /\ a.root \in Seq(Event)
  BY AnchorsAssumption DEF AnchorsBind
<1>2. Len(a.root) \in Nat /\ Len(h) \in Nat
  BY <1>1, LenProperties
<1>3. /\ Len(Append(h, e)) = Len(h) + 1
      /\ \A m \in 0 .. Len(h) : SubSeq(Append(h, e), 1, m) = SubSeq(h, 1, m)
  <2>1. /\ Len(Append(h, e)) = Len(h) + 1
        /\ \A m \in 1 .. Len(h) : SubSeq(Append(h, e), 1, m) = SubSeq(h, 1, m)
    BY OfAppend
  <2>2. SubSeq(Append(h, e), 1, 0) = <<>> /\ SubSeq(h, 1, 0) = <<>>
    BY SubSeqEmpty
  <2>3. QED
    BY <1>2, <2>1, <2>2
<1>4. Len(a.root) \in 0 .. Len(h)
  BY <1>1, <1>2 DEF IsPrefix
<1>5. QED
  BY <1>1, <1>2, <1>3, <1>4 DEF IsPrefix

(* The commits of main stay where they are when main grows by one. *)
LEMMA MainGrows ==
  ASSUME NEW commits \in Seq(Seq(Envelopes)), commits # <<>>, NEW index \in Seq(Envelopes)
  PROVE  LET more == Append(commits, index) IN
         /\ more \in Seq(Seq(Envelopes)) /\ more # <<>>
         /\ DOMAIN commits \subseteq DOMAIN more
         /\ DOMAIN more = DOMAIN commits \cup {Len(commits) + 1}
         /\ \A n \in DOMAIN commits : more[n] = commits[n]
         /\ more[Len(commits) + 1] = index /\ Last(more) = index
         /\ Last(commits) \in Seq(Envelopes) /\ Len(commits) \in DOMAIN commits
         /\ Last(commits) = commits[Len(commits)]
<1> DEFINE more == Append(commits, index)
<1>1. /\ more \in Seq(Seq(Envelopes)) /\ more # <<>>
      /\ Len(more) = Len(commits) + 1 /\ Last(more) = index
      /\ \A n \in 1 .. Len(commits) : more[n] = commits[n]
  BY OfAppend
<1>2. /\ Len(commits) \in Nat /\ DOMAIN commits = 1 .. Len(commits)
      /\ DOMAIN more = 1 .. Len(more)
  BY <1>1, LenProperties
<1>3. /\ Last(commits) \in Seq(Envelopes) /\ Len(commits) \in DOMAIN commits
      /\ Last(commits) = commits[Len(commits)]
  BY LastOfSeq
<1>4. more[Len(commits) + 1] = index
  BY <1>1 DEF Last
<1> HIDE DEF more
<1>5. QED
  BY <1>1, <1>2, <1>3, <1>4 DEF more

(* What a run has in its hands, it has whatever is committed later. *)
LEMMA HandsStay ==
  ASSUME NEW commits \in Seq(Seq(Envelopes)), commits # <<>>, NEW index \in Seq(Envelopes),
         NEW rec, HandsTrue(commits, rec)
  PROVE  HandsTrue(Append(commits, index), rec)
BY MainGrows DEF HandsTrue

(* A step of one run that commits nothing. *)
LEMMA RunMoves ==
  ASSUME Anchored, NEW i \in Runs, NEW rec \in Records, HandsTrue(main, rec),
         run' = [run EXCEPT ![i] = rec], main' = main,
         \A r \in receipts' : r.index \in Seq(Envelopes)
  PROVE  Anchored'
BY DEF Anchored

(* Entering the queue cancels whoever waited. *)
LEMMA QueueMoves ==
  ASSUME Anchored, NEW i \in Runs, NEW rec \in Records, HandsTrue(main, rec),
         Enqueue(i, rec), UNCHANGED <<main, receipts, succeeded>>
  PROVE  Anchored'
<1>1. main' = main /\ receipts' = receipts
  OBVIOUS
<1>2. ASSUME NEW j \in Runs
      PROVE  run'[j] \in Records /\ HandsTrue(main, run'[j])
  <2>1. run[j] \in Records /\ HandsTrue(main, run[j])
    BY DEF Anchored
  <2>2. CASE j # i /\ run[j].status = "pending"
    <3>1. run[j] \in Attempts \cup Migrations
      BY <2>1, <2>2 DEF Records
    <3>2. run'[j] = [run[j] EXCEPT !.status = "cancelled"]
      BY <2>2 DEF Enqueue
    <3>3. run'[j] \in Attempts \cup Migrations
      BY <3>1, <3>2 DEF Attempts, Migrations
    <3>4. /\ run'[j].sha = run[j].sha /\ run'[j].step = run[j].step
          /\ run'[j].outcome = run[j].outcome /\ run'[j].index = run[j].index
      BY <3>1, <3>2 DEF Attempts, Migrations
    <3>5. HandsTrue(main, run'[j])
      BY <2>1, <2>2, <3>4 DEF HandsTrue
    <3>6. QED
      BY <3>3, <3>5 DEF Records
  <2>3. CASE j = i
    BY <2>3 DEF Enqueue
  <2>4. CASE j # i /\ run[j].status # "pending"
    BY <2>1, <2>4 DEF Enqueue
  <2>5. QED
    BY <2>2, <2>3, <2>4
<1>3. run' = [j \in Runs |-> run'[j]]
  BY DEF Enqueue
<1>4. run' \in [Runs -> Records]
  BY <1>2, <1>3
<1>5. QED
  BY <1>1, <1>2, <1>4 DEF Anchored

-----------------------------------------------------------------------------
(* The index starts empty and every run idle. *)
LEMMA AnchoredInit == MigrationInit => Anchored
<1> SUFFICES ASSUME MigrationInit PROVE Anchored
  OBVIOUS
<1>1. main \in Seq(Seq(Envelopes)) /\ main # <<>> /\ DOMAIN main = {1} /\ main[1] = <<>>
  <2>1. main = <<<<>>>> /\ <<>> \in Seq(Envelopes)
    BY EmptySeq DEF MigrationInit
  <2>2. main \in Seq(Seq(Envelopes))
    BY <2>1
  <2>3. QED
    BY <2>1, <2>2
<1>2. run \in [Runs -> Records] /\ \A i \in Runs : HandsTrue(main, run[i])
  BY DEF MigrationInit, Records, HandsTrue
<1>3. \A n \in DOMAIN main : BoundIndex(main[n])
  BY <1>1 DEF BoundIndex
<1>4. receipts = {}
  BY DEF MigrationInit
<1>5. QED
  BY <1>1, <1>2, <1>3, <1>4 DEF Anchored

(* What is known of a run that was dispatched. *)
LEMMA Dispatched ==
  ASSUME Anchored, NEW i \in Runs, run[i].status # "idle"
  PROVE  /\ run[i] \in Attempts \cup Migrations
         /\ run[i].sha \in DOMAIN main /\ HandsTrue(main, run[i])
         /\ run[i].index \in Seq(Envelopes)
<1>1. run[i] \in Attempts \cup Migrations /\ HandsTrue(main, run[i])
  BY DEF Anchored, Records
<1>2. QED
  BY <1>1 DEF HandsTrue, Attempts, Migrations

(* A change of status leaves a run what it has in its hands. *)
LEMMA StatusMoves ==
  ASSUME Anchored, NEW i \in Runs, run[i].status # "idle",
         NEW status \in {"pending", "running", "success", "failure", "cancelled"},
         run' = [run EXCEPT ![i].status = status], main' = main, receipts' = receipts
  PROVE  Anchored'
<1> DEFINE rec == [run[i] EXCEPT !.status = status]
<1>1. run[i] \in Attempts \cup Migrations /\ HandsTrue(main, run[i])
  BY Dispatched
<1>2. rec \in Attempts \cup Migrations
  BY <1>1 DEF Attempts, Migrations
<1>3. /\ rec.sha = run[i].sha /\ rec.step = run[i].step
      /\ rec.outcome = run[i].outcome /\ rec.index = run[i].index
  BY <1>1 DEF Attempts, Migrations
<1>4. run' = [run EXCEPT ![i] = rec]
  BY DEF Anchored
<1> HIDE DEF rec
<1>5. rec \in Records /\ HandsTrue(main, rec)
  BY <1>1, <1>2, <1>3 DEF Records, HandsTrue
<1>6. \A r \in receipts' : r.index \in Seq(Envelopes)
  BY DEF Anchored
<1>7. QED
  BY <1>4, <1>5, <1>6, RunMoves

(* A failing step only ends its run. *)
LEMMA FailMoves ==
  ASSUME Anchored, NEW i \in Runs, run[i].status # "idle", Fail(i)
  PROVE  Anchored'
BY StatusMoves DEF Fail

(* A dispatch enters a run that has done nothing, on main's tip. *)
LEMMA DispatchMoves ==
  ASSUME Anchored, NEW i \in Runs, Dispatch(i)
  PROVE  Anchored'
<1>1. PICK data \in Requests, index \in KnownIndexes :
        Enqueue(i, [status |-> "pending", kind |-> "append", step |-> "check",
                    attempt |-> 1, sha |-> Len(main), outcome |-> "none", index |-> <<>>,
                    request |-> [eventData |-> data, expected |-> index]])
  BY DEF Dispatch
<1> DEFINE rec == [status |-> "pending", kind |-> "append", step |-> "check",
                   attempt |-> 1, sha |-> Len(main), outcome |-> "none", index |-> <<>>,
                   request |-> [eventData |-> data, expected |-> index]]
<1>2. index \in Seq(Envelopes)
  <2>1. \A n \in DOMAIN main : main[n] \in Seq(Envelopes)
    BY ElementOfSeq DEF Anchored
  <2>2. QED
    BY <1>1, <2>1 DEF KnownIndexes, Range, Anchored
<1>3. Len(main) \in DOMAIN main /\ Len(main) \in Nat \ {0}
  BY LastOfSeq, EmptySeq, LenProperties DEF Anchored
<1>4. 1 \in 1 .. MaxAttempts /\ <<>> \in Seq(Envelopes)
  BY WorkflowAssumption, EmptySeq
<1>5. rec \in Attempts
  BY <1>2, <1>3, <1>4 DEF Attempts
<1>6. HandsTrue(main, rec)
  BY <1>3 DEF HandsTrue
<1>7. Enqueue(i, rec) /\ rec \in Records /\ UNCHANGED <<main, receipts, succeeded>>
  BY <1>1, <1>5 DEF Records, Dispatch
<1> HIDE DEF rec
<1>8. QED
  BY <1>6, <1>7, QueueMoves

(* So does the dispatch of a migration. *)
LEMMA DispatchMigrationMoves ==
  ASSUME Anchored, NEW i \in Runs, DispatchMigration(i)
  PROVE  Anchored'
<1> DEFINE rec == [status |-> "pending", kind |-> "migrate", step |-> "check",
                   attempt |-> 1, sha |-> Len(main), outcome |-> "none", index |-> <<>>]
<1>1. Len(main) \in DOMAIN main /\ Len(main) \in Nat \ {0}
  BY LastOfSeq, EmptySeq, LenProperties DEF Anchored
<1>2. 1 \in 1 .. MaxAttempts /\ <<>> \in Seq(Envelopes)
  BY WorkflowAssumption, EmptySeq
<1>3. rec \in Migrations
  BY <1>1, <1>2 DEF Migrations
<1>4. HandsTrue(main, rec)
  BY <1>1 DEF HandsTrue
<1>5. Enqueue(i, rec) /\ rec \in Records /\ UNCHANGED <<main, receipts, succeeded>>
  BY <1>3 DEF Records, DispatchMigration
<1> HIDE DEF rec
<1>6. QED
  BY <1>4, <1>5, QueueMoves

(* A new attempt has done nothing, on the commit of the first one. *)
LEMMA RerunMoves ==
  ASSUME Anchored, NEW i \in Runs, Rerun(i)
  PROVE  Anchored'
<1> DEFINE rec == [run[i] EXCEPT !.status = "pending", !.step = "check",
                               !.attempt = @ + 1, !.outcome = "none", !.index = <<>>]
<1>1. /\ run[i].status # "idle" /\ run[i].attempt < MaxAttempts
      /\ Enqueue(i, rec) /\ UNCHANGED <<main, receipts, succeeded>>
  BY DEF Rerun
<1>2. run[i] \in Attempts \cup Migrations /\ run[i].sha \in DOMAIN main
  BY <1>1, Dispatched
<1>3. run[i].attempt \in 1 .. MaxAttempts /\ MaxAttempts \in Nat
  BY <1>2, WorkflowAssumption DEF Attempts, Migrations
<1>4. run[i].attempt + 1 \in 1 .. MaxAttempts /\ <<>> \in Seq(Envelopes)
  BY <1>1, <1>3, EmptySeq
<1>5. rec \in Attempts \cup Migrations
  BY <1>2, <1>4 DEF Attempts, Migrations
<1>6. /\ rec.sha = run[i].sha /\ rec.step = "check" /\ rec.outcome = "none"
  BY <1>2 DEF Attempts, Migrations
<1> HIDE DEF rec
<1>7. rec \in Records /\ HandsTrue(main, rec)
  BY <1>2, <1>5, <1>6 DEF Records, HandsTrue
<1>8. QED
  BY <1>1, <1>7, QueueMoves

(* The first step goes on to what the run is for, or fails. *)
LEMMA CheckRefMoves ==
  ASSUME Anchored, NEW i \in Runs, CheckRef(i)
  PROVE  Anchored'
<1>1. run[i].status # "idle" /\ run[i].step = "check"
  BY DEF CheckRef, At
<1>2. CASE Fail(i)
  BY <1>1, <1>2, FailMoves
<1>3. CASE run' = [run EXCEPT ![i].step = run[i].kind] /\ UNCHANGED <<main, receipts>>
  <2> DEFINE rec == [run[i] EXCEPT !.step = run[i].kind]
  <2>1. run[i] \in Attempts \cup Migrations /\ HandsTrue(main, run[i])
    BY <1>1, Dispatched
  <2>2. rec \in Attempts \cup Migrations
    BY <2>1 DEF Attempts, Migrations
  <2>3. /\ rec.sha = run[i].sha /\ rec.step \notin {"attest", "commit"}
        /\ rec.status = run[i].status /\ rec.outcome = run[i].outcome
        /\ rec.index = run[i].index
    BY <2>1 DEF Attempts, Migrations
  <2>4. run' = [run EXCEPT ![i] = rec]
    BY <1>3 DEF Anchored
  <2> HIDE DEF rec
  <2>5. rec \in Records /\ HandsTrue(main, rec)
    BY <2>1, <2>2, <2>3 DEF Records, HandsTrue
  <2>6. \A r \in receipts' : r.index \in Seq(Envelopes)
    BY <1>3 DEF Anchored
  <2>7. QED
    BY <1>3, <2>4, <2>5, <2>6, RunMoves
<1>4. QED
  BY <1>2, <1>3 DEF CheckRef

(* An outcome with its index is what a run takes in its hands. *)
LEMMA OutcomeMoves ==
  ASSUME Anchored, NEW i \in Runs, run[i].status # "idle",
         NEW step, NEW outcome, NEW index \in Seq(Envelopes),
         \/ /\ run[i] \in Attempts /\ step = "attest"
            /\ outcome \in {"appended", "rejected"}
         \/ run[i] \in Migrations /\ step = "commit" /\ outcome = "migrated",
         outcome = "appended" => Extends(main[run[i].sha], index),
         outcome = "migrated" => Imported(main[run[i].sha], index),
         run' = [run EXCEPT ![i].step = step, ![i].outcome = outcome, ![i].index = index],
         UNCHANGED <<main, receipts, succeeded>>
  PROVE  Anchored'
<1> DEFINE rec == [run[i] EXCEPT !.step = step, !.outcome = outcome, !.index = index]
<1>1. run[i] \in Attempts \cup Migrations /\ run[i].sha \in DOMAIN main
  BY Dispatched
<1>2. rec \in Attempts \cup Migrations
  BY <1>1 DEF Attempts, Migrations
<1>3. /\ rec.sha = run[i].sha /\ rec.step = step /\ rec.outcome = outcome
      /\ rec.index = index
  BY <1>1 DEF Attempts, Migrations
<1>4. run' = [run EXCEPT ![i] = rec]
  BY DEF Anchored
<1> HIDE DEF rec
<1>5. rec \in Records /\ HandsTrue(main, rec)
  BY <1>1, <1>2, <1>3 DEF Records, HandsTrue
<1>6. \A r \in receipts' : r.index \in Seq(Envelopes)
  BY DEF Anchored
<1>7. QED
  BY <1>4, <1>5, <1>6, RunMoves

(* The append script extends an index that is not empty, by one event. *)
LEMMA AppendEventMoves ==
  ASSUME Anchored, NEW i \in Runs, AppendEvent(i)
  PROVE  Anchored'
<1>1. run[i].status # "idle" /\ run[i].step = "append"
  BY DEF AppendEvent, At
<1>2. run[i] \in Attempts /\ run[i].sha \in DOMAIN main
  BY <1>1, Dispatched DEF Migrations
<1>3. TreeIndex(i) \in Seq(Envelopes)
  BY <1>2, ElementOfSeq DEF Anchored, TreeIndex
<1>4. CASE Fail(i)
  BY <1>1, <1>4, FailMoves
<1>5. ASSUME ~Fail(i)
      PROVE  Anchored'
  <2> DEFINE index  == TreeIndex(i)
             log    == Registry(index)
             data   == run[i].request.eventData
             e(now) == Stamp(log, data, now)
             env(now) == Envelope(Append(log, e(now)), now, i, run[i].attempt)
  <2>1. index # <<>> /\ data \in Requests /\ run[i].attempt \in Nat
    BY <1>2, <1>5, WorkflowAssumption DEF AppendEvent, GenesisMissing, Attempts
  <2>2. PICK now \in Time :
          /\ Len(log) < MaxEvents
          /\ UNCHANGED <<main, receipts, succeeded>>
          /\ \/ run' = [run EXCEPT ![i].step = "attest", ![i].outcome = "rejected",
                                   ![i].index = index]
             \/ /\ EventOk(log, e(now))
                /\ run' = [run EXCEPT ![i].step = "attest", ![i].outcome = "appended",
                                      ![i].index = Append(index, env(now))]
    BY <1>5 DEF AppendEvent, Accepted, NextIndex
  <2> HIDE DEF index
  <2>3. CASE run' = [run EXCEPT ![i].step = "attest", ![i].outcome = "rejected",
                                ![i].index = index]
    <3>1. index \in Seq(Envelopes)
      BY <1>3 DEF index
    <3>2. /\ "rejected" \in {"appended", "rejected"} /\ "rejected" # "appended"
          /\ "rejected" # "migrated"
      OBVIOUS
    <3>3. UNCHANGED <<main, receipts, succeeded>>
      BY <2>2
    <3>4. QED
      BY <1>1, <1>2, <2>3, <3>1, <3>2, <3>3, OutcomeMoves
  <2>4. CASE /\ EventOk(log, e(now))
             /\ run' = [run EXCEPT ![i].step = "attest", ![i].outcome = "appended",
                                   ![i].index = Append(index, env(now))]
    <3>1. env(now) \in Envelopes /\ Append(index, env(now)) \in Seq(Envelopes)
      BY <1>3, <2>1, <2>4, NewEnvelope DEF index
    <3>2. env(now).snapshot = Append(log, e(now))
      BY DEF Envelope
    <3>3. Extends(index, Append(index, env(now)))
      <4> HIDE DEF env
      <4>1. QED
        BY <2>1, <2>2, <2>4, <3>1, <3>2 DEF Extends
    <3>4. index = main[run[i].sha]
      BY DEF index, TreeIndex
    <3> DEFINE more == Append(index, env(now))
    <3>5. /\ more \in Seq(Envelopes) /\ Extends(main[run[i].sha], more)
          /\ run' = [run EXCEPT ![i].step = "attest", ![i].outcome = "appended",
                                ![i].index = more]
          /\ UNCHANGED <<main, receipts, succeeded>>
      BY <2>2, <2>4, <3>1, <3>3, <3>4
    <3> HIDE DEF more
    <3>6. "appended" \in {"appended", "rejected"} /\ "appended" # "migrated"
      OBVIOUS
    <3>7. QED
      BY <1>1, <1>2, <3>5, <3>6, OutcomeMoves
  <2>5. QED
    BY <2>2, <2>3, <2>4
<1>6. QED
  BY <1>4, <1>5

(* The migration imports the anchored registry where no index was. *)
LEMMA MigrateMoves ==
  ASSUME Anchored, NEW i \in Runs, Migrate(i)
  PROVE  Anchored'
<1>1. run[i].status # "idle" /\ run[i].step = "migrate"
  BY DEF Migrate, At
<1>2. run[i] \in Migrations /\ run[i].sha \in DOMAIN main
  BY <1>1, Dispatched DEF Attempts
<1>3. CASE Fail(i)
  BY <1>1, <1>3, FailMoves
<1>4. ASSUME ~Fail(i)
      PROVE  Anchored'
  <2>1. TreeIndex(i) = <<>>
    BY <1>4 DEF Migrate, AlreadyMigrated
  <2>2. PICK registry \in PrivateRegistries, now \in Time :
          /\ GenesisOk(registry)
          /\ run' = [run EXCEPT ![i].step = "commit", ![i].outcome = "migrated",
                       ![i].index = <<Envelope(registry, now, i, run[i].attempt)>>]
          /\ UNCHANGED <<main, receipts, succeeded>>
    BY <1>4 DEF Migrate, AlreadyMigrated
  <2>3. registry = Genesis /\ AnchorsBind(Genesis)
    BY <2>2, AnchorsAssumption DEF GenesisOk
  <2> DEFINE env == Envelope(Genesis, now, i, run[i].attempt)
  <2>4. env \in Envelopes /\ env.snapshot = Genesis
    BY <1>2, WorkflowAssumption DEF Envelope, Envelopes, Migrations
  <2>5. run' = [run EXCEPT ![i].step = "commit", ![i].outcome = "migrated",
                  ![i].index = <<env>>]
    BY <2>2, <2>3
  <2> HIDE DEF env
  <2> DEFINE index == <<env>>
  <2>6. index \in Seq(Envelopes)
    BY <2>4
  <2>7. Imported(main[run[i].sha], index)
    BY <2>1, <2>3, <2>4 DEF Imported, TreeIndex
  <2>8. /\ run' = [run EXCEPT ![i].step = "commit", ![i].outcome = "migrated",
                     ![i].index = index]
        /\ UNCHANGED <<main, receipts, succeeded>>
    BY <2>2, <2>5
  <2> HIDE DEF index
  <2>9. QED
    BY <1>1, <1>2, <2>6, <2>7, <2>8, OutcomeMoves
<1>5. QED
  BY <1>3, <1>4

(* A receipt is uploaded: the run may push what it holds. *)
LEMMA UploadReceiptMoves ==
  ASSUME Anchored, NEW i \in Runs, UploadReceipt(i)
  PROVE  Anchored'
<1> DEFINE rec == [run[i] EXCEPT !.step = "commit"]
<1>1. /\ run[i].status # "idle" /\ run[i].step = "attest"
      /\ run' = [run EXCEPT ![i].step = "commit"] /\ main' = main
      /\ receipts' = receipts \cup {Receipt(i, run[i].index)}
  BY DEF UploadReceipt, At
<1>2. run[i] \in Attempts \cup Migrations /\ HandsTrue(main, run[i])
      /\ run[i].index \in Seq(Envelopes)
  BY <1>1, Dispatched
<1>3. rec \in Attempts \cup Migrations
  BY <1>2 DEF Attempts, Migrations
<1>4. /\ rec.sha = run[i].sha /\ rec.status = run[i].status
      /\ rec.outcome = run[i].outcome /\ rec.index = run[i].index
  BY <1>2 DEF Attempts, Migrations
<1>5. run[i].outcome \in {"appended", "rejected", "migrated"}
  BY <1>1, <1>2 DEF HandsTrue, Attempts, Migrations
<1>6. run' = [run EXCEPT ![i] = rec]
  BY <1>1 DEF Anchored
<1> HIDE DEF rec
<1>7. rec \in Records /\ HandsTrue(main, rec)
  BY <1>2, <1>3, <1>4, <1>5 DEF Records, HandsTrue
<1>8. \A r \in receipts' : r.index \in Seq(Envelopes)
  BY <1>1, <1>2 DEF Anchored, Receipt
<1>9. QED
  BY <1>1, <1>6, <1>7, <1>8, RunMoves

(* A run that pushed concludes. *)
LEMMA ConcludeMoves ==
  ASSUME Anchored, NEW i \in Runs, Conclude(i)
  PROVE  Anchored'
<1>1. /\ run[i].status # "idle" /\ run' = [run EXCEPT ![i].status = "success"]
      /\ main' = main /\ receipts' = receipts
  BY DEF Conclude, At
<1>2. QED
  BY <1>1, StatusMoves

(* What a push commits: on the tip its run is pinned to, an index that was  *)
(* made for exactly this tip.                                              *)
LEMMA PushCommits ==
  ASSUME Anchored, NEW i \in Runs, Push(i)
  PROVE  LET index == run[i].index
             prior == Last(main)
         IN /\ index \in Seq(Envelopes) /\ prior \in Seq(Envelopes)
            /\ main' = Append(main, index) /\ Last(main') = index
            /\ BoundIndex(prior)
            /\ Extends(prior, index) \/ Imported(prior, index)
<1>1. /\ run[i].status # "idle" /\ run[i].step = "commit"
      /\ run[i].outcome # "rejected" /\ run[i].sha = Len(main)
      /\ main' = Append(main, run[i].index)
  BY DEF Push, At
<1>2. /\ HandsTrue(main, run[i]) /\ run[i].index \in Seq(Envelopes)
      /\ run[i].sha \in DOMAIN main
  BY <1>1, Dispatched
<1>3. main \in Seq(Seq(Envelopes)) /\ main # <<>>
  BY DEF Anchored
<1>4. /\ Last(main) = main[run[i].sha] /\ Last(main) \in Seq(Envelopes)
      /\ Last(Append(main, run[i].index)) = run[i].index
  BY <1>1, <1>2, <1>3, MainGrows
<1>5. BoundIndex(Last(main))
  BY <1>2, <1>4 DEF Anchored
<1>6. Extends(Last(main), run[i].index) \/ Imported(Last(main), run[i].index)
  BY <1>1, <1>2, <1>4 DEF HandsTrue
<1>7. QED
  BY <1>1, <1>2, <1>4, <1>5, <1>6

(* An index that extends a bound one is bound. *)
LEMMA ExtendedBound ==
  ASSUME NEW prior \in Seq(Envelopes), NEW index, BoundIndex(prior), Extends(prior, index)
  PROVE  BoundIndex(index) /\ index # <<>> /\ index[1] = prior[1]
<1>1. PICK r \in Requests, now \in Time, env \in Envelopes :
        /\ EventOk(Registry(prior), Stamp(Registry(prior), r, now))
        /\ env.snapshot = Append(Registry(prior), Stamp(Registry(prior), r, now))
        /\ index = Append(prior, env)
  BY DEF Extends
<1> DEFINE log == Registry(prior)
           e   == Stamp(log, r, now)
<1>2. prior # <<>> /\ Len(prior) \in DOMAIN prior /\ Last(prior) = prior[Len(prior)]
  BY LastOfSeq DEF Extends
<1>3. AnchorsBind(log) /\ log \in Seq(Event)
  BY <1>2, RegistryOfIndex DEF BoundIndex, Registry
<1>4. r \in Request /\ now \in Nat
  BY WorkflowAssumption
<1>5. e \in Event
  <2> HIDE DEF log
  <2>1. QED
    BY <1>1, <1>3, <1>4, StampIsEvent DEF log
<1>6. AnchorsBind(env.snapshot)
  <2> HIDE DEF e, log
  <2>1. env.snapshot = Append(log, e)
    BY <1>1 DEF e, log
  <2>2. QED
    BY <1>3, <1>5, <2>1, BindsGrown
<1>7. /\ Len(prior) \in Nat \ {0} /\ DOMAIN prior = 1 .. Len(prior)
      /\ DOMAIN index = 1 .. Len(prior) + 1
      /\ \A m \in 1 .. Len(prior) : index[m] = prior[m]
      /\ index[Len(prior) + 1] = env /\ index # <<>>
  <2>1. Len(prior) \in Nat \ {0} /\ DOMAIN prior = 1 .. Len(prior)
    BY <1>2, EmptySeq, LenProperties
  <2>2. /\ index \in Seq(Envelopes) /\ index # <<>> /\ Len(index) = Len(prior) + 1
        /\ \A m \in 1 .. Len(prior) : index[m] = prior[m]
        /\ index[Len(prior) + 1] = env
    BY <1>1, OfAppend, AppendProperties
  <2>3. DOMAIN index = 1 .. Len(index)
    BY <2>2, LenProperties
  <2>4. QED
    BY <2>1, <2>2, <2>3
<1>8. BoundIndex(index)
  <2> SUFFICES ASSUME NEW m \in DOMAIN index PROVE AnchorsBind(index[m].snapshot)
    BY DEF BoundIndex
  <2>1. CASE m \in DOMAIN prior
    BY <1>7, <2>1 DEF BoundIndex
  <2>2. CASE m = Len(prior) + 1
    BY <1>6, <1>7, <2>2
  <2>3. QED
    BY <1>7, <2>1, <2>2
<1>9. QED
  BY <1>7, <1>8

(* So is the imported one. *)
LEMMA ImportedBound ==
  ASSUME NEW prior, NEW index, Imported(prior, index)
  PROVE  BoundIndex(index) /\ index # <<>> /\ Registry(index) = Genesis
<1>1. PICK env \in Envelopes : env.snapshot = Genesis /\ index = <<env>>
  BY DEF Imported
<1>2. AnchorsBind(Genesis)
  BY DEF Imported
<1>3. DOMAIN index = {1} /\ index[1] = env /\ index # <<>> /\ Last(index) = env
  BY <1>1 DEF Last
<1>4. QED
  BY <1>1, <1>2, <1>3 DEF BoundIndex, Registry

(* A commit of a bound index, with at most one run that moves on. *)
LEMMA CommitMoves ==
  ASSUME Anchored, NEW index \in Seq(Envelopes), BoundIndex(index),
         main' = Append(main, index), run' \in [Runs -> Records],
         \A i \in Runs : HandsTrue(main, run'[i]), receipts' = receipts
  PROVE  Anchored'
<1>1. main \in Seq(Seq(Envelopes)) /\ main # <<>>
  BY DEF Anchored
<1>2. /\ main' \in Seq(Seq(Envelopes)) /\ main' # <<>>
      /\ DOMAIN main' = DOMAIN main \cup {Len(main) + 1}
      /\ \A n \in DOMAIN main : main'[n] = main[n]
      /\ main'[Len(main) + 1] = index
  BY <1>1, MainGrows
<1>3. \A i \in Runs : HandsTrue(main', run'[i])
  BY <1>1, HandsStay
<1>4. \A n \in DOMAIN main' : BoundIndex(main'[n])
  BY <1>2 DEF Anchored
<1>5. QED
  BY <1>2, <1>3, <1>4 DEF Anchored, BoundIndex

(* A push commits a bound index. *)
LEMMA PushMoves ==
  ASSUME Anchored, NEW i \in Runs, Push(i)
  PROVE  Anchored'
<1> DEFINE index == run[i].index
           rec   == [run[i] EXCEPT !.step = "pushed"]
<1>1. /\ index \in Seq(Envelopes) /\ Last(main) \in Seq(Envelopes)
      /\ main' = Append(main, index) /\ BoundIndex(Last(main))
      /\ Extends(Last(main), index) \/ Imported(Last(main), index)
  BY PushCommits
<1>2. BoundIndex(index)
  <2> HIDE DEF index
  <2>1. QED
    BY <1>1, ExtendedBound, ImportedBound
<1>3. /\ run[i].status # "idle" /\ receipts' = receipts
      /\ run' = [run EXCEPT ![i].step = "pushed"]
  BY DEF Push, At
<1>4. run[i] \in Attempts \cup Migrations /\ HandsTrue(main, run[i])
  BY <1>3, Dispatched
<1>5. rec \in Attempts \cup Migrations
  BY <1>4 DEF Attempts, Migrations
<1>6. /\ rec.sha = run[i].sha /\ rec.status = run[i].status /\ rec.step = "pushed"
      /\ rec.outcome = run[i].outcome /\ rec.index = run[i].index
  BY <1>4 DEF Attempts, Migrations
<1>7. run' = [run EXCEPT ![i] = rec]
  BY <1>3 DEF Anchored
<1> HIDE DEF rec
<1>8. rec \in Records /\ HandsTrue(main, rec)
  BY <1>4, <1>5, <1>6 DEF Records, HandsTrue
<1>9. run' \in [Runs -> Records] /\ \A j \in Runs : HandsTrue(main, run'[j])
  BY <1>7, <1>8 DEF Anchored
<1> HIDE DEF index
<1>10. QED
  BY <1>1, <1>2, <1>3, <1>9, CommitMoves

(* A merge commits the last index again. *)
LEMMA MergeCodeMoves ==
  ASSUME Anchored, MergeCode
  PROVE  Anchored'
<1>1. /\ Last(main) \in Seq(Envelopes) /\ Len(main) \in DOMAIN main
      /\ Last(main) = main[Len(main)]
  BY LastOfSeq DEF Anchored
<1>2. BoundIndex(Last(main))
  BY <1>1 DEF Anchored
<1>3. /\ main' = Append(main, Last(main)) /\ run' = run /\ receipts' = receipts
  BY DEF MergeCode
<1>4. run' \in [Runs -> Records] /\ \A i \in Runs : HandsTrue(main, run'[i])
  BY <1>3 DEF Anchored
<1>5. QED
  BY <1>1, <1>2, <1>3, <1>4, CommitMoves

(* Every step keeps Anchored. *)
LEMMA AnchoredNext ==
  ASSUME Anchored, [MigrationNext]_vars
  PROVE  Anchored'
<1>1. CASE UNCHANGED vars
  BY <1>1 DEF Anchored, vars
<1>2. CASE MergeCode
  BY <1>2, MergeCodeMoves
<1>3. ASSUME NEW i \in Runs, run[i].status = "running", Fail(i)
      PROVE  Anchored'
  BY <1>3, FailMoves
<1>4. ASSUME NEW i \in Runs, Start(i)
      PROVE  Anchored'
  <2>1. /\ run[i].status # "idle" /\ run' = [run EXCEPT ![i].status = "running"]
        /\ main' = main /\ receipts' = receipts
    BY <1>4 DEF Start
  <2>2. QED
    BY <2>1, StatusMoves
<1>5. ASSUME NEW i \in Runs, Step(i)
      PROVE  Anchored'
  BY <1>3, <1>5, CheckRefMoves, AppendEventMoves, UploadReceiptMoves, PushMoves,
     ConcludeMoves DEF Step, Reject, PushRefused, At
<1>6. QED
  BY <1>1, <1>2, <1>3, <1>4, <1>5, DispatchMoves, RerunMoves, DispatchMigrationMoves,
     MigrateMoves DEF MigrationNext, Next, Interrupt

(* Whatever main holds and runs may push is bound to the anchors, in every  *)
(* reachable state.                                                        *)
THEOREM AnchoredKept == MigrationSpec => []Anchored
<1>1. QED
  BY AnchoredInit, AnchoredNext, PTL DEF MigrationSpec

-----------------------------------------------------------------------------
(* Every frozen anchor stays bound to a prefix of each registry on main,    *)
(* whatever the private repository holds when a migration reads it.         *)
THEOREM AnchorsBoundForGood == MigrationSpec => []AnchorsStayBound
<1>1. Anchored => AnchorsStayBound
  <2> SUFFICES ASSUME Anchored, NEW a \in Range(Anchors), NEW n \in DOMAIN Last(main)
               PROVE  IsPrefix(a.root, Last(main)[n].snapshot)
    BY DEF AnchorsStayBound
  <2>1. Len(main) \in DOMAIN main /\ Last(main) = main[Len(main)]
    BY LastOfSeq DEF Anchored
  <2>2. QED
    BY <2>1 DEF Anchored, BoundIndex, AnchorsBind
<1>2. QED
  BY <1>1, AnchoredKept, PTL

(* No step but a push changes what main's last index is. *)
LEMMA OnlyPushesCommit ==
  ASSUME Anchored, [MigrationNext]_vars, ~\E i \in Runs : Push(i)
  PROVE  Last(main') = Last(main)
<1>1. CASE MergeCode
  <2>1. Last(main) \in Seq(Envelopes) /\ main' = Append(main, Last(main))
    BY <1>1, LastOfSeq DEF MergeCode, Anchored
  <2>2. QED
    BY <2>1, OfAppend DEF Anchored
<1>2. ASSUME NEW i \in Runs, AppendEvent(i) \/ Migrate(i)
      PROVE  main' = main
  BY <1>2 DEF AppendEvent, Migrate, Fail
<1>3. QED
  BY <1>1, <1>2 DEF MigrationNext, Next, Step, Dispatch, DispatchMigration, Rerun, Start,
     Interrupt, Fail, CheckRef, UploadReceipt, Reject, PushRefused, Conclude, vars

(* The genesis is committed once and never replaced, however migrations are *)
(* queued, repeated and raced by appends.                                  *)
THEOREM GenesisCommittedForGood == MigrationSpec => GenesisCommittedOnce
<1>1. Anchored /\ [MigrationNext]_vars =>
        [Last(main) # <<>> => Last(main)' # <<>> /\ Last(main)'[1] = Last(main)[1]]_main
  <2> SUFFICES ASSUME Anchored, [MigrationNext]_vars, Last(main) # <<>>
               PROVE  Last(main') # <<>> /\ Last(main')[1] = Last(main)[1]
    OBVIOUS
  <2>1. ASSUME NEW i \in Runs, Push(i)
        PROVE  Last(main') # <<>> /\ Last(main')[1] = Last(main)[1]
    <3>1. /\ Last(main) \in Seq(Envelopes) /\ BoundIndex(Last(main))
          /\ Extends(Last(main), Last(main'))
      BY <2>1, PushCommits DEF Imported
    <3>2. QED
      BY <3>1, ExtendedBound
  <2>2. CASE ~\E i \in Runs : Push(i)
    BY <2>2, OnlyPushesCommit
  <2>3. QED
    BY <2>1, <2>2
<1>2. QED
  BY <1>1, AnchoredKept, PTL DEF MigrationSpec, GenesisCommittedOnce

-----------------------------------------------------------------------------
(* A push of an extended index is one protected append of the registry; a   *)
(* push of the imported one leaves the committed history as it was.         *)
LEMMA PushImplements ==
  ASSUME Anchored, NEW i \in Runs, Push(i)
  PROVE  [R!Next]_Committed
<1> DEFINE prior == Last(main)
           index == Last(main')
<1>1. /\ prior \in Seq(Envelopes) /\ index \in Seq(Envelopes)
      /\ Extends(prior, index) \/ Imported(prior, index)
  BY PushCommits
<1>2. Committed = Registry(prior) /\ Committed' = Registry(index)
  BY DEF Committed, Registry
<1>3. CASE Imported(prior, index)
  <2>1. Registry(prior) = Genesis
    BY <1>3 DEF Imported, Registry
  <2>2. Registry(index) = Genesis
    BY <1>3, ImportedBound
  <2>3. QED
    BY <1>2, <2>1, <2>2
<1>4. CASE Extends(prior, index)
  <2> DEFINE log       == Registry(prior)
             e(r, now) == Stamp(log, r, now)
  <2>1. PICK r \in Requests, now \in Time, env \in Envelopes :
          /\ Len(log) < MaxEvents /\ EventOk(log, e(r, now))
          /\ env.snapshot = Append(log, e(r, now)) /\ index = Append(prior, env)
    BY <1>4 DEF Extends
  <2>2. Last(index) = env /\ index # <<>>
    <3> HIDE DEF index, prior
    <3>1. QED
      BY <1>1, <2>1, OfAppend
  <2>3. Committed = log /\ Committed' = Append(log, e(r, now))
    BY <1>2, <2>1, <2>2 DEF Registry
  <2>4. r.eventType \in EventTypes
    BY WorkflowAssumption DEF Request, RequestsOfType, EventTypes
  <2> HIDE DEF log
  <2>5. R!Stamp(Committed, r, now) = e(r, now) /\ R!EventOk(Committed, e(r, now))
    BY <2>1, <2>3, SameStamp, SameVerdict
  <2> HIDE DEF e
  <2>6. r \in R!RequestsFor(r.eventType)
    BY DEF R!RequestsFor
  <2>7. R!Submit(r.eventType)
    BY <2>1, <2>3, <2>5, <2>6 DEF R!Submit
  <2>8. QED
    BY <2>4, <2>7 DEF EventTypes, R!Next, R!QuarantineLegacy, R!Assign, R!SealReview,
       R!SealTruth, R!ReleaseSource, R!Consume, R!SealExecution, R!ChallengeJudge,
       R!SealJudge
<1>5. QED
  BY <1>1, <1>3, <1>4

(* The custody workflows together implement the registry: the history that  *)
(* callers read is the anchored one before and after the migration, and     *)
(* then grows by one accepted event at a time.                              *)
THEOREM CustodyImplementsRegistry == MigrationSpec => MigrationImplementsRegistry
<1>1. MigrationInit => R!Init
  <2> SUFFICES ASSUME MigrationInit PROVE Committed = Genesis
    BY DEF R!Init
  <2>1. Last(main) = <<>>
    BY DEF MigrationInit, Last
  <2>2. QED
    BY <2>1 DEF Committed, Registry
<1>2. Anchored /\ [MigrationNext]_vars => [R!Next]_Committed
  <2> SUFFICES ASSUME Anchored, [MigrationNext]_vars PROVE [R!Next]_Committed
    OBVIOUS
  <2>1. CASE ~\E i \in Runs : Push(i)
    BY <2>1, OnlyPushesCommit DEF Committed, Registry
  <2>2. QED
    BY <2>1, PushImplements
<1>3. QED
  BY <1>1, <1>2, AnchoredKept, PTL DEF MigrationSpec, R!Spec, MigrationImplementsRegistry

-----------------------------------------------------------------------------
(* The import is the anchored registry, which is valid; from there on each  *)
(* push extends a valid index by one accepted event.                        *)
LEMMA CommittedValid ==
  ASSUME NEW prior \in Seq(Envelopes), SnapshotsValid(prior), NEW index,
         Extends(prior, index) \/ Imported(prior, index)
  PROVE  SnapshotsValid(index)
<1>1. CASE Extends(prior, index)
  <2>1. PICK r \in Requests, now \in Time, env \in Envelopes :
          /\ EventOk(Registry(prior), Stamp(Registry(prior), r, now))
          /\ env.snapshot = Append(Registry(prior), Stamp(Registry(prior), r, now))
          /\ index = Append(prior, env)
    BY <1>1 DEF Extends
  <2>2. prior # <<>>
    BY <1>1 DEF Extends
  <2>3. QED
    BY <2>1, <2>2, ExtendedValid
<1>2. CASE Imported(prior, index)
  <2>1. PICK env \in Envelopes : env.snapshot = Genesis /\ index = <<env>>
    BY <1>2 DEF Imported
  <2>2. DOMAIN index = {1} /\ index[1].snapshot = Genesis
    BY <2>1
  <2>3. QED
    BY <2>2, WorkflowAssumption DEF SnapshotsValid
<1>3. QED
  BY <1>1, <1>2

(* The start has no ciphertext at all. *)
LEMMA NothingEncryptedFirst == MigrationInit => CiphertextsValid
<1>1. SUFFICES ASSUME MigrationInit PROVE CiphertextsValid
  OBVIOUS
<1>2. main = <<<<>>>> /\ DOMAIN main = {1} /\ main[1] = <<>> /\ DOMAIN <<>> = {}
  BY <1>1 DEF MigrationInit
<1>3. QED
  BY <1>2 DEF CiphertextsValid, SnapshotsValid

(* What main takes on: an append, the import, or what a merge carried. *)
LEMMA MigratedCiphertextsNext ==
  ASSUME Anchored, CiphertextsValid, [MigrationNext]_vars
  PROVE  CiphertextsValid'
<1>1. CASE main' = main
  BY <1>1 DEF CiphertextsValid
<1>2. main \in Seq(Seq(Envelopes)) /\ main # <<>>
  BY DEF Anchored
<1>3. ASSUME NEW index \in Seq(Envelopes), main' = Append(main, index), SnapshotsValid(index)
      PROVE  CiphertextsValid'
  <2>1. /\ DOMAIN main' = DOMAIN main \cup {Len(main) + 1}
        /\ main'[Len(main) + 1] = index
        /\ \A m \in DOMAIN main : main'[m] = main[m]
    BY <1>2, <1>3, MainGrows
  <2>2. QED
    BY <1>3, <2>1 DEF CiphertextsValid
<1>4. /\ Last(main) \in Seq(Envelopes) /\ SnapshotsValid(Last(main))
  BY <1>2, LastOfSeq DEF CiphertextsValid
<1>5. CASE \E i \in Runs : Push(i)
  <2>1. PICK i \in Runs : Push(i)
    BY <1>5
  <2>2. PICK index \in Seq(Envelopes) :
          /\ main' = Append(main, index)
          /\ Extends(Last(main), index) \/ Imported(Last(main), index)
    BY <2>1, PushCommits
  <2>3. SnapshotsValid(index)
    BY <1>4, <2>2, CommittedValid
  <2>4. QED
    BY <1>3, <2>2, <2>3
<1>6. CASE MergeCode
  BY <1>3, <1>4, <1>6 DEF MergeCode
<1>7. ASSUME NEW i \in Runs, AppendEvent(i) \/ Migrate(i) PROVE main' = main
  BY <1>7 DEF AppendEvent, Migrate, Fail
<1>8. QED
  BY <1>1, <1>5, <1>6, <1>7 DEF MigrationNext, Next, Step, Dispatch, DispatchMigration, Rerun,
     Start, Interrupt, Fail, CheckRef, UploadReceipt, Reject, PushRefused, Conclude, vars

(* Every ciphertext on main, from the empty index on, keeps the promises of *)
(* the registry: a migration imports no history that would break them, and  *)
(* no append after it does.                                                 *)
CiphertextsInCustody == \A m \in DOMAIN main : SnapshotsHold(main[m])

(* Whichever migrations and appends race, what they publish is in custody:  *)
(* the import was compared with the anchors and validated, and each append  *)
(* validated what it encrypted (migrate-encrypted-genesis.mjs).             *)
THEOREM MigratedHistoriesStayInCustody == MigrationSpec => []CiphertextsInCustody
<1>1. Anchored /\ CiphertextsValid /\ [MigrationNext]_vars => CiphertextsValid'
  BY MigratedCiphertextsNext
<1>2. CiphertextsValid => CiphertextsInCustody
  BY ValidIndexHolds DEF CiphertextsValid, CiphertextsInCustody
<1>3. QED
  BY <1>1, <1>2, NothingEncryptedFirst, AnchoredKept, PTL DEF MigrationSpec

-----------------------------------------------------------------------------
(* No update is lost when a migration takes part either: what main once     *)
(* showed, the import included, it shows at every later commit.             *)
THEOREM NoMigratedUpdateLost == MigrationSpec => []NothingRewritten
<1>1. ASSUME MigrationInit PROVE NothingRewritten
  BY <1>1 DEF MigrationInit, NothingRewritten, IndexKept
<1>2. ASSUME Anchored, NothingRewritten, [MigrationNext]_vars
      PROVE  NothingRewritten'
  <2>1. main \in Seq(Seq(Envelopes)) /\ main # <<>> /\ Last(main) \in Seq(Envelopes)
    BY <1>2, LastOfSeq DEF Anchored
  <2>2. CASE main' = main
    BY <1>2, <2>2 DEF NothingRewritten
  <2>3. ASSUME NEW i \in Runs, Push(i) PROVE NothingRewritten'
    <3>1. PICK index \in Seq(Envelopes) :
            /\ main' = Append(main, index)
            /\ Extends(Last(main), index) \/ Imported(Last(main), index)
      BY <1>2, <2>3, PushCommits
    <3>2. IndexKept(Last(main), index)
      <4>1. CASE Extends(Last(main), index)
        BY <2>1, <4>1, AppendKeepsIndex DEF Extends
      <4>2. CASE Imported(Last(main), index)
        <5>1. Last(main) = <<>>
          BY <4>2 DEF Imported
        <5>2. QED
          BY <5>1 DEF IndexKept
      <4>3. QED
        BY <3>1, <4>1, <4>2
    <3>3. QED
      BY <1>2, <2>1, <3>1, <3>2, TipExtended
  <2>4. CASE MergeCode
    <3>1. IndexKept(Last(main), Last(main)) /\ main' = Append(main, Last(main))
      BY <2>4 DEF IndexKept, MergeCode
    <3>2. QED
      BY <1>2, <2>1, <3>1, TipExtended
  <2>5. ASSUME NEW i \in Runs, AppendEvent(i) \/ Migrate(i) PROVE main' = main
    BY <2>5 DEF AppendEvent, Migrate, Fail
  <2>6. QED
    BY <1>2, <2>2, <2>3, <2>4, <2>5 DEF MigrationNext, Next, Step, Dispatch, DispatchMigration,
       Rerun, Start, Interrupt, Fail, CheckRef, UploadReceipt, Reject, PushRefused, Conclude,
       vars
<1>3. QED
  BY <1>1, <1>2, AnchoredKept, PTL DEF MigrationSpec

===============================================================================
