---------------------------- MODULE ModelBroker ----------------------------
(***************************************************************************)
(* The credential-isolated model broker of one evaluation job and the      *)
(* codex shims that call it (scripts/github-models-broker.mjs,             *)
(* scripts/codex-models-shim.mjs, scripts/model-receipt.mjs).              *)
(*                                                                         *)
(* A request handler yields at every await: while it reads the body, while *)
(* the hosted model answers and while it backs off; other handlers run in  *)
(* between.  A shim gives up after its own time limit, or earlier, and the *)
(* handler that serves it does not notice.                                 *)
(*                                                                         *)
(* A prompt with its schema and images is modelled by the call that sent   *)
(* it, elapsed time by the order of events.                                *)
(***************************************************************************)
EXTENDS Naturals, Sequences, FiniteSets

CONSTANTS
  Calls,        \* the shim invocations the product may make
  Malformed,    \* those that break the broker's request contract
  Paths,        \* response paths
  MaxAttempts,  \* attempts on one request; 8 in the code
  None

ASSUME BrokerAssumption ==
  MaxAttempts \in Nat \ {0} /\ Malformed \subseteq Calls /\ None \notin Calls

VARIABLES
  broker,     \* "up" until the job or a fault stops it
  sequence,   \* the broker's request counter
  log,        \* model-receipts.jsonl
  shim,       \* call -> where the shim is and the path it writes to
  handler,    \* call -> what the broker does for it
  prompt,     \* path -> the call that wrote <path>.prompt.txt
  response,   \* path -> the call that wrote <path>
  receipt     \* path -> the call that wrote <path>.model-receipt.json

vars == <<broker, sequence, log, shim, handler, prompt, response, receipt>>
files == <<prompt, response, receipt>>

NoFile == [p \in Paths |-> None]

Active == {"reading", "calling", "delay"}

Init ==
  /\ broker = "up" /\ sequence = 0 /\ log = <<>>
  /\ shim = [c \in Calls |-> [phase |-> "idle", path |-> None]]
  /\ handler = [c \in Calls |-> [phase |-> "none", seq |-> 0, attempt |-> 0, bound |-> FALSE]]
  /\ prompt = NoFile /\ response = NoFile /\ receipt = NoFile

ShimTo(c, phase) == shim' = [shim EXCEPT ![c].phase = phase]

HandlerTo(c, phase) == handler' = [handler EXCEPT ![c].phase = phase]

(***************************************************************************)
(* The broker.                                                             *)
(***************************************************************************)
(* validateBrokerRequest: fields, images and their commitments. *)
WellFormed(c) == c \notin Malformed

(* Read and validate the body, then number the request. *)
Receive(c) ==
  /\ handler[c].phase = "reading"
  /\ \/ /\ WellFormed(c) /\ shim[c].phase = "sent"
        /\ sequence' = sequence + 1
        /\ handler' = [handler EXCEPT ![c] =
             [phase |-> "calling", seq |-> sequence + 1, attempt |-> 1, bound |-> FALSE]]
     \/ /\ ~WellFormed(c) \/ shim[c].phase # "sent"
        /\ HandlerTo(c, "failed")
        /\ UNCHANGED sequence
  /\ UNCHANGED <<broker, log, shim, files>>

\* Faulty variant: the receipt takes the counter's value when the model answers.
SealWithCounter(c, bound) ==
  /\ log' = Append(log, [call |-> c, seq |-> sequence, attempts |-> handler[c].attempt,
                         bound |-> bound])
  /\ handler' = [handler EXCEPT ![c].phase = "answered", ![c].bound = bound]

\* Faulty variant: the answer does not wait for the receipt file.
SealUnlogged(c, bound) ==
  /\ handler' = [handler EXCEPT ![c].phase = "answered", ![c].bound = bound]
  /\ log' = log

(* Seal a receipt, append it to the file, answer.  A receipt that names no  *)
(* returned model or no rate limit is sealed all the same (not bound).     *)
Seal(c, bound) ==
  /\ log' = Append(log, [call |-> c, seq |-> handler[c].seq, attempts |-> handler[c].attempt,
                         bound |-> bound])
  /\ handler' = [handler EXCEPT ![c].phase = "answered", ![c].bound = bound]

(* The hosted model answers with structured output. *)
Complete(c) ==
  /\ handler[c].phase = "calling"
  /\ \E bound \in BOOLEAN : Seal(c, bound)
  /\ UNCHANGED <<broker, sequence, shim, files>>

\* Faulty variant: one attempt too many.
AttemptsExceeded(c) == handler[c].attempt > MaxAttempts

AttemptsSpent(c) == handler[c].attempt = MaxAttempts

(* HTTP 408, 429 or a server error: back off unless it was the last attempt. *)
Retryable(c) ==
  /\ handler[c].phase = "calling"
  /\ HandlerTo(c, IF AttemptsSpent(c) THEN "failed" ELSE "delay")
  /\ UNCHANGED <<broker, sequence, log, shim, files>>

(* Any other status, a network error, the attempt's time limit, or output   *)
(* that is not the promised JSON: the request fails at once.               *)
FailCall(c) ==
  /\ handler[c].phase = "calling"
  /\ HandlerTo(c, "failed")
  /\ UNCHANGED <<broker, sequence, log, shim, files>>

\* Faulty variant: attempts are not counted.
RetryUncounted(c) ==
  /\ handler[c].phase = "delay"
  /\ HandlerTo(c, "calling")
  /\ UNCHANGED <<broker, sequence, log, shim, files>>

Retry(c) ==
  /\ handler[c].phase = "delay"
  /\ handler' = [handler EXCEPT ![c].phase = "calling", ![c].attempt = @ + 1]
  /\ UNCHANGED <<broker, sequence, log, shim, files>>

(* The job kills the broker, or the broker dies: its handlers go with it. *)
StopBroker ==
  /\ broker = "up"
  /\ broker' = "down"
  /\ handler' = [c \in Calls |->
                   IF handler[c].phase \in Active THEN [handler[c] EXCEPT !.phase = "gone"]
                   ELSE handler[c]]
  /\ UNCHANGED <<sequence, log, shim, files>>

Handle(c) ==
  broker = "up" /\ (Receive(c) \/ Complete(c) \/ Retryable(c) \/ FailCall(c) \/ Retry(c))

(***************************************************************************)
(* The shim.  Every file it writes must not exist yet (flag "wx").         *)
(***************************************************************************)
\* Faulty variant: an earlier prompt file is overwritten.
Overwritable(file, p) == TRUE

Fresh(file, p) == file[p] = None

(* Keep the prompt beside the response path and post the request. *)
Launch(c) ==
  /\ shim[c].phase = "idle"
  /\ \E p \in Paths :
       IF Fresh(prompt, p)
       THEN /\ prompt' = [prompt EXCEPT ![p] = c]
            /\ shim' = [shim EXCEPT ![c] = [phase |-> "sent", path |-> p]]
            /\ HandlerTo(c, IF broker = "up" THEN "reading" ELSE "gone")
       ELSE /\ ShimTo(c, "failed")
            /\ UNCHANGED <<prompt, handler>>
  /\ UNCHANGED <<broker, sequence, log, response, receipt>>

(* validateModelReceipt, then the response file. *)
Accept(c) ==
  /\ shim[c].phase = "sent" /\ handler[c].phase = "answered"
  /\ IF handler[c].bound /\ Fresh(response, shim[c].path)
     THEN response' = [response EXCEPT ![shim[c].path] = c] /\ ShimTo(c, "written")
     ELSE ShimTo(c, "failed") /\ UNCHANGED response
  /\ UNCHANGED <<broker, sequence, log, handler, prompt, receipt>>

(* The receipt file follows the response file. *)
KeepReceipt(c) ==
  /\ shim[c].phase = "written"
  /\ IF Fresh(receipt, shim[c].path)
     THEN receipt' = [receipt EXCEPT ![shim[c].path] = c] /\ ShimTo(c, "done")
     ELSE ShimTo(c, "failed") /\ UNCHANGED receipt
  /\ UNCHANGED <<broker, sequence, log, handler, prompt, response>>

(* An error answer, a lost connection, the time limit, or a killed process. *)
GiveUp(c) ==
  /\ shim[c].phase \in {"sent", "written"}
  /\ ShimTo(c, "failed")
  /\ UNCHANGED <<broker, sequence, log, handler, files>>

Next ==
  \/ \E c \in Calls : Handle(c) \/ Launch(c) \/ Accept(c) \/ KeepReceipt(c) \/ GiveUp(c)
  \/ StopBroker

Spec == Init /\ [][Next]_vars

(* The event loop serves every handler; each attempt and each back-off is   *)
(* limited in time.                                                        *)
FairSpec == Spec /\ \A c \in Calls : WF_vars(Handle(c))

-----------------------------------------------------------------------------
Receipts == [call : Calls, seq : Nat, attempts : 1 .. MaxAttempts, bound : BOOLEAN]

(* No request is attempted more often than the retry limit allows. *)
TypeOK ==
  /\ broker \in {"up", "down"} /\ sequence \in Nat /\ log \in Seq(Receipts)
  /\ shim \in [Calls -> [phase : {"idle", "sent", "written", "done", "failed"},
                         path : Paths \cup {None}]]
  /\ handler \in [Calls ->
       [phase : Active \cup {"none", "answered", "failed", "gone"}, seq : Nat,
        attempt : 0 .. MaxAttempts, bound : BOOLEAN]]
  /\ \A file \in {prompt, response, receipt} : file \in [Paths -> Calls \cup {None}]

(* Each receipt in the broker's file carries the number its request got on  *)
(* arrival, whatever other requests arrive while the model answers: no two  *)
(* share a number, and a later number never stands for an earlier request   *)
(* (requestSequence is taken before the awaits and used after them).       *)
ReceiptsNumberedApart ==
  \A m, n \in DOMAIN log :
    /\ log[n].seq = handler[log[n].call].seq /\ log[n].seq \in 1 .. sequence
    /\ m # n => log[m].seq # log[n].seq /\ log[m].call # log[n].call

(* Whatever transcription the product may read, its receipt is in the file  *)
(* that is returned as evidence, once, although shims give up, handlers     *)
(* outlive them and the broker may be stopped at any point.                *)
UsedAnswersAreLogged ==
  \A p \in Paths :
    response[p] # None =>
      Cardinality({n \in DOMAIN log : log[n].call = response[p] /\ log[n].bound}) = 1

(* The prompt, response and receipt beside one path are of one call, even   *)
(* if the product calls again with a path it has used.                     *)
FilesOfOneCall ==
  \A p \in Paths :
    /\ response[p] # None => response[p] = prompt[p]
    /\ receipt[p] # None => receipt[p] = response[p]

(* Every request ends: answered, refused after bounded retries, or gone     *)
(* with the broker.                                                        *)
EveryRequestEnds ==
  \A c \in Calls :
    handler[c].phase \in Active ~> handler[c].phase \in {"answered", "failed", "gone"}

=============================================================================
