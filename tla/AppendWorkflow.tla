--------------------------- MODULE AppendWorkflow ---------------------------
(***************************************************************************)
(* The protected append: workflow runs that check out main, decrypt the    *)
(* latest snapshot, append one event, attest and upload a receipt and push *)
(* the result (.github/workflows/append-encrypted-registry.yml and         *)
(* scripts/append-encrypted-registry.mjs).                                 *)
(*                                                                         *)
(* Runs are dispatched with main's tip of that moment and queue in one     *)
(* concurrency group: one runs, one is pending, a newer pending run        *)
(* replaces it.  A runner may be lost between any two steps, main may be   *)
(* moved by merges of code, and a concluded run may be run again on its    *)
(* original tip.                                                           *)
(*                                                                         *)
(* A commit id is its position on main (main rejects force pushes).  The   *)
(* hash of an index or an envelope is the value itself.  An encrypted      *)
(* snapshot is the event history it holds; two encryptions of one history  *)
(* differ by the run and attempt that made them.                           *)
(***************************************************************************)
EXTENDS CorpusEvents, SequencesExt

CONSTANTS
  Runs,         \* workflow run ids
  Requests,     \* the event data callers may submit
  Time,         \* the instants a runner's clock may show
  Genesis,      \* the history the migration imported
  MigratedAt,   \* the time of the genesis envelope
  MaxEvents,    \* bound: events in the registry
  MaxCommits,   \* bound: commits on main when code is merged
  MaxAttempts   \* bound: attempts of one run

(* Callers submit well-formed event data, clocks show instants, and the    *)
(* migration imported a valid history (createGenesisState).                *)
ASSUME WorkflowAssumption ==
  /\ Requests \subseteq Request /\ Time \subseteq Nat
  /\ Genesis \in Seq(Event) /\ Genesis # <<>> /\ RegistryValid(Genesis)
  /\ MigratedAt \in Nat
  /\ MaxAttempts \in Nat \ {0} /\ None \notin Runs

VARIABLES
  main,       \* commits: each the registry/index.json it carries
  run,        \* run id -> what the run is and has done
  receipts,   \* uploaded and attested receipt artifacts
  succeeded   \* run attempts that concluded as success

vars == <<main, run, receipts, succeeded>>

Waiting == {"pending", "running"}

(* An entry of index.json together with the ciphertext it commits to. *)
Envelope(snapshot, time, i, attempt) ==
  [snapshot |-> snapshot, issuedAt |-> time, run |-> i, attempt |-> attempt]

GenesisIndex == <<Envelope(Genesis, MigratedAt, None, 0)>>

(* The registry that main's latest ciphertext decrypts to; until the        *)
(* migration it is the private one.                                        *)
Registry(index) == IF index = <<>> THEN Genesis ELSE Last(index).snapshot

Committed == Registry(Last(main))

Init ==
  /\ main = <<GenesisIndex>>
  /\ run = [i \in Runs |-> [status |-> "idle"]]
  /\ receipts = {}
  /\ succeeded = {}

(***************************************************************************)
(* Queueing.  Entering the group cancels the run that was pending.         *)
(***************************************************************************)
Enqueue(i, record) ==
  run' = [j \in Runs |->
            IF j = i THEN record
            ELSE IF run[j].status = "pending"
                 THEN [run[j] EXCEPT !.status = "cancelled"] ELSE run[j]]

(* A caller names the index it last read, from main or from a receipt, and *)
(* may send one request several times.                                     *)
KnownIndexes == Range(main) \cup {r.index : r \in receipts}

Dispatch(i) ==
  /\ run[i].status = "idle"
  /\ \E data \in Requests, index \in KnownIndexes :
       Enqueue(i, [status |-> "pending", kind |-> "append", step |-> "check",
                   attempt |-> 1, sha |-> Len(main), outcome |-> "none", index |-> <<>>,
                   request |-> [eventData |-> data, expected |-> index]])
  /\ UNCHANGED <<main, receipts, succeeded>>

(* A person re-runs a concluded run: a new attempt, the same tip and input. *)
Rerun(i) ==
  /\ run[i].status \in {"success", "failure", "cancelled"}
  /\ run[i].attempt < MaxAttempts
  /\ Enqueue(i, [run[i] EXCEPT !.status = "pending", !.step = "check",
                               !.attempt = @ + 1, !.outcome = "none",
                               !.index = <<>>])
  /\ UNCHANGED <<main, receipts, succeeded>>

\* Faulty variant: the concurrency group is missing.
StartAtOnce(i) ==
  /\ run[i].status = "pending"
  /\ run' = [run EXCEPT ![i].status = "running"]
  /\ UNCHANGED <<main, receipts, succeeded>>

Start(i) ==
  /\ run[i].status = "pending"
  /\ \A j \in Runs : run[j].status # "running"
  /\ run' = [run EXCEPT ![i].status = "running"]
  /\ UNCHANGED <<main, receipts, succeeded>>

(***************************************************************************)
(* The steps of a running attempt.                                         *)
(***************************************************************************)
At(i, step) == run[i].status = "running" /\ run[i].step = step

Fail(i) ==
  /\ run' = [run EXCEPT ![i].status = "failure"]
  /\ UNCHANGED <<main, receipts, succeeded>>

(* Refuse any unprotected or stale workflow ref. *)
CheckRef(i) ==
  /\ At(i, "check")
  /\ IF run[i].sha = Len(main)
     THEN /\ run' = [run EXCEPT ![i].step = run[i].kind]
          /\ UNCHANGED <<main, receipts, succeeded>>
     ELSE Fail(i)

(* The index of the checked-out tree. *)
TreeIndex(i) == main[run[i].sha]

(* "Encrypted genesis is missing": no append before the migration. *)
GenesisMissing(i) == TreeIndex(i) = <<>>

\* Faulty variant: the request's index is not compared.
AnyRequest(i) == TRUE

(* validateAppendIntent: the request was made for this very index. *)
FreshRequest(i) == run[i].request.expected = TreeIndex(i)

\* Faulty variant: envelope times are not compared with the genesis envelope.
ChainedAfterGenesis(index, time) == Len(index) > 1 => Last(index).issuedAt <= time

(* validatePublicIndex, after the files are written. *)
ChainedIndex(index, time) == index # <<>> => Last(index).issuedAt <= time

\* Faulty variant: only the time chain is validated.
InOrder(log, e) == ChainOk(log, e)

Accepted(log, e) == EventOk(log, e)

(* validateProtectedReceipt: an execution seal carries all of its product   *)
(* certification or none of it, whatever the split.                         *)
Certified(e) ==
  e.eventType = "execution-seal" =>
    (e.payload.attested <=> e.payload.productCodeTip # None)

NextIndex(index, env) == Append(index, env)

(* append-encrypted-registry.mjs: append and re-encrypt, or reject. *)
AppendEvent(i) ==
  /\ At(i, "append")
  /\ IF GenesisMissing(i) \/ ~FreshRequest(i) THEN Fail(i)
     ELSE \E now \in Time :
       LET index == TreeIndex(i)
           log   == Registry(index)
           e     == Stamp(log, run[i].request.eventData, now)
           env   == Envelope(Append(log, e), now, i, run[i].attempt)
           Done(outcome, result) ==
             /\ run' = [run EXCEPT ![i].step = "attest", ![i].outcome = outcome,
                                   ![i].index = result]
             /\ UNCHANGED <<main, receipts, succeeded>>
           written == Certified(e) /\ ChainedIndex(index, now)
       IN /\ Len(log) < MaxEvents
          /\ \/ ~Accepted(log, e) /\ Done("rejected", index)
             \/ Accepted(log, e) /\ written /\ Done("appended", NextIndex(index, env))
             \/ Accepted(log, e) /\ ~written /\ Fail(i)

Receipt(i, index) ==
  [run |-> i, attempt |-> run[i].attempt, signer |-> run[i].sha,
   request |-> run[i].request, outcome |-> run[i].outcome, index |-> index]

\* Faulty variant: the receipt commits to the index before the append.
UploadEarlyReceipt(i) ==
  /\ At(i, "attest")
  /\ receipts' = receipts \cup {Receipt(i, TreeIndex(i))}
  /\ run' = [run EXCEPT ![i].step = "commit"]
  /\ UNCHANGED <<main, succeeded>>

(* Attest the encrypted receipt and upload it as an artifact. *)
UploadReceipt(i) ==
  /\ At(i, "attest")
  /\ receipts' = receipts \cup {Receipt(i, run[i].index)}
  /\ run' = [run EXCEPT ![i].step = "commit"]
  /\ UNCHANGED <<main, succeeded>>

\* Faulty variant: the step is skipped, its condition being misspelt.
RejectSkipped(i) ==
  /\ At(i, "commit") /\ run[i].outcome = "rejected"
  /\ run' = [run EXCEPT ![i].step = "pushed"]
  /\ UNCHANGED <<main, receipts, succeeded>>

(* Fail the append after retaining its encrypted rejection receipt. *)
Reject(i) == At(i, "commit") /\ run[i].outcome = "rejected" /\ Fail(i)

\* Faulty variant: the receipt follows the push.
PushFirst(i) ==
  /\ At(i, "attest") /\ run[i].outcome = "appended"
  /\ run[i].sha = Len(main)
  /\ main' = Append(main, run[i].index)
  /\ run' = [run EXCEPT ![i].step = "pushed"]
  /\ UNCHANGED <<receipts, succeeded>>

(* Commit and push: main takes the commit only as a fast-forward. *)
Push(i) ==
  /\ At(i, "commit") /\ run[i].outcome # "rejected"
  /\ run[i].sha = Len(main)
  /\ main' = Append(main, run[i].index)
  /\ run' = [run EXCEPT ![i].step = "pushed"]
  /\ UNCHANGED <<receipts, succeeded>>

\* Faulty variant: the exit code of a refused push is lost.
IgnorePushRefusal(i) ==
  /\ At(i, "commit") /\ run[i].outcome # "rejected"
  /\ run[i].sha # Len(main)
  /\ run' = [run EXCEPT ![i].step = "pushed"]
  /\ UNCHANGED <<main, receipts, succeeded>>

PushRefused(i) ==
  /\ At(i, "commit") /\ run[i].outcome # "rejected"
  /\ run[i].sha # Len(main)
  /\ Fail(i)

Conclude(i) ==
  /\ At(i, "pushed")
  /\ run' = [run EXCEPT ![i].status = "success"]
  /\ succeeded' = succeeded \cup {<<i, run[i].attempt>>}
  /\ UNCHANGED <<main, receipts>>

(* A lost runner, a service failure, a time limit or a person's cancel; it *)
(* strikes between any two steps, also after the push.                     *)
Interrupt(i) == run[i].status = "running" /\ Fail(i)

(* A merge of code moves main and leaves the registry directory alone. *)
MergeCode ==
  /\ Len(main) < MaxCommits
  /\ main' = Append(main, Last(main))
  /\ UNCHANGED <<run, receipts, succeeded>>

Step(i) ==
  \/ CheckRef(i)
  \/ AppendEvent(i)
  \/ UploadReceipt(i)
  \/ Reject(i)
  \/ Push(i)
  \/ PushRefused(i)
  \/ Conclude(i)

Next ==
  \/ \E i \in Runs :
       Dispatch(i) \/ Rerun(i) \/ Start(i) \/ Step(i) \/ Interrupt(i)
  \/ MergeCode

Spec == Init /\ [][Next]_vars

-----------------------------------------------------------------------------
Envelopes ==
  [snapshot : Seq(Event), issuedAt : Nat, run : Runs \cup {None}, attempt : Nat]

Attempts ==
  [status : {"pending", "running", "success", "failure", "cancelled"},
   kind : {"append"}, step : {"check", "append", "attest", "commit", "pushed"},
   attempt : 1 .. MaxAttempts, sha : Nat \ {0},
   outcome : {"none", "appended", "rejected"}, index : Seq(Envelopes),
   request : [eventData : Requests, expected : Seq(Envelopes)]]

(* What main and the runs hold; at most one run is running, one pending. *)
TypeOK ==
  /\ main \in Seq(Seq(Envelopes))
  /\ run \in [Runs -> [status : {"idle"}] \cup Attempts]
  /\ \A s \in Waiting : Cardinality({i \in Runs : run[i].status = s}) <= 1

(* The custody workflow implements the registry: what main's latest         *)
(* ciphertext holds starts as the imported history and changes only by one  *)
(* accepted event at a time, whatever runs are queued, lost, repeated or    *)
(* overtaken by merges.                                                     *)
R == INSTANCE CorpusRegistry WITH events <- Committed, Imports <- {Genesis}

ImplementsRegistry == R!Spec

(* Every envelope on main was requested for exactly the index it extends,  *)
(* and no request is committed twice however often it is sent or its run   *)
(* repeated: a caller's decision rests on the registry it was taken on     *)
(* (expectedPublicIndexSha256).                                            *)
RequestOf(env) == run[env.run].request

AnswersItsPrefix ==
  \A n \in 2 .. Len(Last(main)) :
    /\ RequestOf(Last(main)[n]).expected = SubSeq(Last(main), 1, n - 1)
    /\ \A m \in 2 .. n - 1 : RequestOf(Last(main)[m]) # RequestOf(Last(main)[n])

(* A run that concludes as success has committed its event ("an Actions     *)
(* success continues to mean that an append was actually committed").       *)
SuccessMeansCommitted ==
  \A s \in succeeded : \E n \in DOMAIN Last(main) :
    <<Last(main)[n].run, Last(main)[n].attempt>> = s

(* Whatever main holds, its requester can learn of: the receipt of every   *)
(* envelope was attested and uploaded, although the runner may have been    *)
(* lost right after the push.                                               *)
CommitsAreReceipted ==
  \A n \in 2 .. Len(Last(main)) :
    \E r \in receipts : r.outcome = "appended" /\ r.index = SubSeq(Last(main), 1, n)

(* decrypt-receipt.mjs accepts a receipt for the request, ciphertext and    *)
(* signer commit the caller expects.                                        *)
Verifies(r, request, ciphertext, signer) ==
  r.request = request /\ Last(r.index) = ciphertext /\ r.signer = signer

(* A receipt that verifies as an append against a ciphertext on main tells  *)
(* of a committed event: its whole index is on main, committed right after  *)
(* the signer's commit, and no other append receipt verifies so.            *)
VerifiedMeansCommitted ==
  \A r \in receipts, n \in DOMAIN main :
    r.outcome = "appended" /\ Verifies(r, r.request, Last(main[n]), r.signer) =>
      /\ r.signer + 1 \in DOMAIN main /\ main[r.signer + 1] = r.index
      /\ r.request.expected = main[r.signer]
      /\ \A q \in receipts :
           q.outcome = "appended" /\ Last(q.index) = Last(main[n]) => q = r

(* The public index on main always validates, so no append can leave an     *)
(* index that stops every later run: envelope times never run backwards and *)
(* each snapshot extends the one before by one event.                       *)
PublicIndexValid ==
  \A n \in 2 .. Len(Last(main)) :
    LET prior == Last(main)[n - 1]
        env   == Last(main)[n]
    IN /\ prior.issuedAt <= env.issuedAt
       /\ Front(env.snapshot) = prior.snapshot
       /\ Last(env.snapshot).issuedAt = env.issuedAt

(* A rejection stands: its receipt answers a request for the very index of *)
(* the signer's commit, and the attempt neither concludes as success nor   *)
(* ever has an event on main, so its caller may amend the request and send *)
(* it again ("After attesting and uploading that receipt, the workflow     *)
(* concludes as failed", README.md:211-213).                               *)
RejectionsStand ==
  \A r \in receipts : r.outcome = "rejected" =>
    /\ r.signer \in DOMAIN main /\ r.index = main[r.signer]
    /\ r.request.expected = r.index
    /\ <<r.run, r.attempt>> \notin succeeded
    /\ \A n \in DOMAIN main : \A m \in DOMAIN main[n] :
         <<main[n][m].run, main[n][m].attempt>> # <<r.run, r.attempt>>

=============================================================================
