-------------------------- MODULE ModelBrokerProofs --------------------------
(***************************************************************************)
(* Theorems about the model broker and its shims, for every set of calls   *)
(* and paths and every retry limit.  The inductive invariant Evidence ties *)
(* the three together: a request is numbered once, when it has been read;  *)
(* an answered call has its receipt in the file; and every file beside a   *)
(* response path is of the call that made the path's prompt.               *)
(***************************************************************************)
EXTENDS ModelBroker, SequenceTheorems, FiniteSetTheorems, TLAPS

-----------------------------------------------------------------------------
(* What the broker knows of a call: it is numbered once and for all when    *)
(* its request has been read, and answered after its receipt was logged.    *)
HandlerTrue(c) ==
  LET h == handler[c] IN
  /\ shim[c].phase = "idle" => h.phase = "none"
  /\ h.phase \in {"none", "reading"} => h.seq = 0
  /\ h.phase \in {"calling", "delay", "answered"} => h.seq # 0 /\ h.attempt # 0
  /\ h.phase = "delay" => h.attempt < MaxAttempts
  /\ h.seq <= sequence
  /\ h.phase = "answered" => \E n \in DOMAIN log : log[n].call = c

NumbersApart ==
  \A c, d \in Calls : handler[c].seq # 0 /\ handler[c].seq = handler[d].seq => c = d

(* A receipt is the one of an answered call. *)
LogTrue ==
  /\ \A n \in DOMAIN log :
       LET h == handler[log[n].call] IN
       h.phase = "answered" /\ log[n].seq = h.seq /\ log[n].bound = h.bound
  /\ \A m, n \in DOMAIN log : log[m].call = log[n].call => m = n

(* A shim writes to the path whose prompt file it made. *)
ShimTrue(c) ==
  /\ shim[c].phase \in {"sent", "written"} =>
       shim[c].path \in Paths /\ prompt[shim[c].path] = c
  /\ shim[c].phase = "written" => response[shim[c].path] = c

PathTrue(p) ==
  /\ response[p] # None =>
       /\ response[p] = prompt[p]
       /\ handler[response[p]].phase = "answered" /\ handler[response[p]].bound
  /\ receipt[p] # None => receipt[p] = response[p]

Evidence ==
  /\ TypeOK
  /\ \A c \in Calls : HandlerTrue(c) /\ ShimTrue(c)
  /\ NumbersApart
  /\ LogTrue
  /\ \A p \in Paths : PathTrue(p)

-----------------------------------------------------------------------------
Handlers ==
  [phase : Active \cup {"none", "answered", "failed", "gone"}, seq : Nat,
   attempt : 0 .. MaxAttempts, bound : BOOLEAN]

(* What the file of receipts is after one more receipt. *)
LEMMA Appended ==
  ASSUME NEW s \in Seq(Receipts), NEW r \in Receipts
  PROVE  /\ Append(s, r) \in Seq(Receipts) /\ Len(Append(s, r)) = Len(s) + 1
         /\ Append(s, r)[Len(s) + 1] = r
         /\ \A n \in 1 .. Len(s) : Append(s, r)[n] = s[n]
         /\ Len(s) \in Nat /\ DOMAIN s = 1 .. Len(s)
         /\ DOMAIN Append(s, r) = 1 .. (Len(s) + 1)
         /\ \A n \in DOMAIN s : s[n] \in Receipts
<1>1. Append(s, r) \in Seq(Receipts) /\ Len(Append(s, r)) = Len(s) + 1
  BY AppendProperties
<1>2. DOMAIN Append(s, r) = 1 .. (Len(s) + 1) /\ DOMAIN s = 1 .. Len(s) /\ Len(s) \in Nat
  BY <1>1, LenProperties
<1>3. \A n \in DOMAIN s : s[n] \in Receipts
  BY <1>2, ElementOfSeq
<1>4. QED
  BY <1>1, <1>2, <1>3, AppendProperties

(* Nothing is numbered, logged or written at the start. *)
LEMMA EvidenceInit == Init => Evidence
<1>1. SUFFICES ASSUME Init PROVE Evidence
  OBVIOUS
<1>2. /\ log = <<>> /\ DOMAIN log = {} /\ sequence = 0
      /\ \A c \in Calls : handler[c].phase = "none" /\ handler[c].seq = 0
      /\ \A c \in Calls : shim[c].phase = "idle"
      /\ \A p \in Paths : response[p] = None /\ receipt[p] = None
  BY <1>1 DEF Init, NoFile
<1>3. TypeOK
  BY <1>1, BrokerAssumption DEF Init, NoFile, TypeOK, Active
<1>4. \A c \in Calls : HandlerTrue(c) /\ ShimTrue(c)
  BY <1>2 DEF HandlerTrue, ShimTrue
<1>5. QED
  BY <1>2, <1>3, <1>4 DEF Evidence, NumbersApart, LogTrue, PathTrue

(* One handler goes on, to an answer only with its receipt. *)
LEMMA HandlerGoesOn ==
  ASSUME Evidence, NEW c \in Calls, NEW h \in Handlers, handler[c].phase \in Active,
         handler' = [handler EXCEPT ![c] = h], UNCHANGED <<broker, shim, files>>,
         sequence' \in Nat, sequence <= sequence',
         h.phase \in Active \cup {"answered", "failed"},
         \/ h.seq = handler[c].seq
         \/ h.seq = sequence + 1 /\ sequence' = sequence + 1,
         h.phase = "reading" => h.seq = 0,
         h.phase \in {"calling", "delay", "answered"} => h.seq # 0 /\ h.attempt # 0,
         h.phase = "delay" => h.attempt < MaxAttempts,
         NEW r \in Receipts, r.call = c, r.seq = h.seq, r.bound = h.bound,
         \/ h.phase # "answered" /\ log' = log
         \/ h.phase = "answered" /\ log' = Append(log, r)
  PROVE  Evidence'
<1>1. TypeOK /\ handler \in [Calls -> Handlers] /\ log \in Seq(Receipts)
  BY DEF Evidence, TypeOK, Handlers
<1>2. /\ handler'[c] = h /\ handler' \in [Calls -> Handlers]
      /\ \A d \in Calls : d # c => handler'[d] = handler[d]
      /\ shim' = shim /\ prompt' = prompt /\ response' = response /\ receipt' = receipt
  BY <1>1 DEF files
<1>3. /\ log' \in Seq(Receipts) /\ DOMAIN log \subseteq DOMAIN log'
      /\ \A n \in DOMAIN log : log'[n] = log[n] /\ log[n] \in Receipts
      /\ h.phase # "answered" => DOMAIN log' = DOMAIN log
      /\ h.phase = "answered" =>
           /\ Len(log) + 1 \in DOMAIN log' /\ log'[Len(log) + 1] = r
           /\ \A n \in DOMAIN log' : n \in DOMAIN log \/ n = Len(log) + 1
           /\ Len(log) + 1 \notin DOMAIN log
  <2>1. /\ Len(log) \in Nat /\ DOMAIN log = 1 .. Len(log)
        /\ \A n \in DOMAIN log : log[n] \in Receipts
    BY <1>1, Appended
  <2>2. CASE h.phase # "answered"
    BY <1>1, <2>1, <2>2
  <2>3. CASE h.phase = "answered"
    <3>1. log' = Append(log, r)
      BY <2>3
    <3>2. /\ log' \in Seq(Receipts) /\ Len(log') = Len(log) + 1
          /\ log'[Len(log) + 1] = r /\ \A n \in 1 .. Len(log) : log'[n] = log[n]
          /\ DOMAIN log' = 1 .. (Len(log) + 1)
      BY <1>1, <3>1, Appended
    <3>3. QED
      BY <2>1, <2>3, <3>2
  <2>4. QED
    BY <2>2, <2>3
<1>4. \A n \in DOMAIN log : log[n].call \in Calls /\ log[n].call # c
  BY <1>3 DEF Evidence, LogTrue, Active, Receipts
<1>5. TypeOK'
  BY <1>1, <1>2, <1>3 DEF TypeOK, Handlers, files
<1>6. ASSUME NEW d \in Calls
      PROVE  HandlerTrue(d)' /\ ShimTrue(d)'
  <2>1. HandlerTrue(d) /\ ShimTrue(d)
    BY DEF Evidence
  <2>2. ShimTrue(d)'
    BY <1>2, <2>1 DEF ShimTrue
  <2>3. CASE d = c
    <3>1. shim[c].phase # "idle"
      BY <2>1, <2>3 DEF HandlerTrue, Active
    <3>2. h.seq <= sequence'
      BY <1>1, <2>1, <2>3 DEF HandlerTrue, Handlers, TypeOK
    <3>3. h.phase = "answered" => \E n \in DOMAIN log' : log'[n].call = c
      BY <1>3
    <3>4. h.phase # "none"
      BY DEF Active
    <3>5. QED
      BY <1>2, <2>2, <2>3, <3>1, <3>2, <3>3, <3>4 DEF HandlerTrue
  <2>4. CASE d # c
    <3>1. handler'[d] = handler[d] /\ handler[d] \in Handlers
      BY <1>1, <1>2, <2>4
    <3>2. handler[d].seq <= sequence'
      BY <1>1, <2>1, <3>1 DEF HandlerTrue, Handlers, TypeOK
    <3>3. handler[d].phase = "answered" => \E n \in DOMAIN log' : log'[n].call = d
      BY <1>3, <2>1 DEF HandlerTrue
    <3>4. QED
      BY <1>2, <2>1, <2>2, <3>1, <3>2, <3>3 DEF HandlerTrue
  <2>5. QED
    BY <2>3, <2>4
<1>7. NumbersApart'
  <2>1. \A d \in Calls : handler[d].seq <= sequence /\ handler[d].seq \in Nat
    BY <1>1 DEF Evidence, HandlerTrue, Handlers
  <2>2. sequence \in Nat
    BY <1>1 DEF TypeOK
  <2>3. QED
    BY <1>2, <2>1, <2>2 DEF Evidence, NumbersApart
<1>8. LogTrue'
  <2>1. ASSUME NEW n \in DOMAIN log
        PROVE  LET g == handler'[log'[n].call] IN
               g.phase = "answered" /\ log'[n].seq = g.seq /\ log'[n].bound = g.bound
    BY <1>2, <1>3, <1>4 DEF Evidence, LogTrue
  <2>2. CASE h.phase # "answered"
    BY <1>3, <2>1, <2>2 DEF Evidence, LogTrue
  <2>3. CASE h.phase = "answered"
    <3>1. \A m, n \in DOMAIN log' : log'[m].call = log'[n].call => m = n
      BY <1>3, <1>4, <2>3 DEF Evidence, LogTrue
    <3>2. QED
      BY <1>2, <1>3, <2>1, <2>3, <3>1 DEF LogTrue
  <2>4. QED
    BY <2>2, <2>3
<1>9. \A p \in Paths : PathTrue(p)'
  BY <1>1, <1>2 DEF Evidence, PathTrue, Active, TypeOK
<1>10. QED
  BY <1>5, <1>6, <1>7, <1>8, <1>9 DEF Evidence

(* A step of a request handler, at any of its awaits, keeps Evidence. *)
LEMMA HandleKeeps ==
  ASSUME Evidence, NEW c \in Calls, Handle(c)
  PROVE  Evidence'
<1> DEFINE h == handler[c]
<1>1. /\ TypeOK /\ HandlerTrue(c) /\ h \in Handlers /\ sequence \in Nat
      /\ MaxAttempts \in Nat \ {0} /\ handler \in [Calls -> Handlers]
  BY BrokerAssumption DEF Evidence, TypeOK, Handlers
<1>2. h.seq \in Nat /\ h.attempt \in 0 .. MaxAttempts /\ h.bound \in BOOLEAN
  BY <1>1 DEF Handlers
<1>3. ASSUME NEW g \in Handlers, h.phase \in Active,
             handler' = [handler EXCEPT ![c] = g],
             UNCHANGED <<broker, shim, files, log>>,
             \/ g.seq = h.seq /\ sequence' = sequence
             \/ g.seq = sequence + 1 /\ sequence' = sequence + 1,
             g.phase \in Active \cup {"failed"}, g.phase = "reading" => g.seq = 0,
             g.phase \in {"calling", "delay"} => g.seq # 0 /\ g.attempt # 0,
             g.phase = "delay" => g.attempt < MaxAttempts
      PROVE  Evidence'
  <2> DEFINE r == [call |-> c, seq |-> g.seq, attempts |-> 1, bound |-> g.bound]
  <2>1. /\ r \in Receipts /\ r.call = c /\ r.seq = g.seq /\ r.bound = g.bound
    BY <1>1, <1>3 DEF Receipts, Handlers
  <2>2. sequence' \in Nat /\ sequence <= sequence'
    BY <1>1, <1>3
  <2>3. g.phase # "answered"
    BY <1>3 DEF Active
  <2> HIDE DEF r
  <2>4. QED
    BY <1>3, <2>1, <2>2, <2>3, HandlerGoesOn
<1>4. ASSUME NEW phase \in {"delay", "failed"}, h.phase \in Active, HandlerTo(c, phase),
             UNCHANGED <<broker, sequence, shim, files, log>>,
             phase = "delay" => h.phase = "calling" /\ h.attempt < MaxAttempts
      PROVE  Evidence'
  <2> DEFINE g == [h EXCEPT !.phase = phase]
  <2>1. /\ g \in Handlers /\ g.phase = phase /\ g.seq = h.seq /\ g.attempt = h.attempt
    BY <1>1 DEF Handlers, Active
  <2>2. handler' = [handler EXCEPT ![c] = g]
    BY <1>1, <1>4 DEF HandlerTo
  <2>3. phase = "delay" => h.seq # 0 /\ h.attempt # 0
    BY <1>1, <1>4 DEF HandlerTrue
  <2> HIDE DEF g
  <2>4. QED
    BY <1>3, <1>4, <2>1, <2>2, <2>3 DEF Active
<1>5. CASE Receive(c)
  <2>1. CASE HandlerTo(c, "failed") /\ UNCHANGED sequence
    BY <1>4, <1>5, <2>1 DEF Receive, Active
  <2>2. CASE ~(HandlerTo(c, "failed") /\ UNCHANGED sequence)
    <3> DEFINE g == [phase |-> "calling", seq |-> sequence + 1, attempt |-> 1,
                     bound |-> FALSE]
    <3>1. /\ g \in Handlers /\ g.phase = "calling" /\ g.seq = sequence + 1
          /\ g.attempt = 1 /\ g.seq # 0
      BY <1>1 DEF Handlers, Active
    <3>2. /\ handler' = [handler EXCEPT ![c] = g] /\ sequence' = sequence + 1
          /\ h.phase = "reading" /\ UNCHANGED <<broker, shim, files, log>>
      BY <1>5, <2>2 DEF Receive
    <3>3. h.phase \in Active /\ g.phase \in Active \cup {"failed"} /\ g.phase # "reading"
          /\ g.phase # "delay" /\ g.attempt # 0
          /\ g.seq = sequence + 1 /\ sequence' = sequence + 1
      BY <3>2 DEF Active
    <3>4. UNCHANGED <<broker, shim, files, log>>
      BY <3>2
    <3> HIDE DEF g, h
    <3>5. QED
      BY <1>3, <3>1, <3>2, <3>3, <3>4
  <2>3. QED
    BY <2>1, <2>2
<1>6. CASE Complete(c)
  <2>1. h.phase = "calling" /\ UNCHANGED <<broker, sequence, shim, files>>
    BY <1>6 DEF Complete
  <2>2. PICK bound \in BOOLEAN : Seal(c, bound)
    BY <1>6 DEF Complete
  <2> DEFINE g == [h EXCEPT !.phase = "answered", !.bound = bound]
             r == [call |-> c, seq |-> h.seq, attempts |-> h.attempt, bound |-> bound]
  <2>3. h.seq # 0 /\ h.attempt # 0
    BY <1>1, <2>1 DEF HandlerTrue
  <2>4. /\ g \in Handlers /\ g.phase = "answered" /\ g.seq = h.seq
        /\ g.attempt = h.attempt /\ g.bound = bound
    BY <1>1 DEF Handlers
  <2>5. r \in Receipts /\ r.call = c /\ r.seq = g.seq /\ r.bound = g.bound
    BY <1>1, <1>2, <2>3, <2>4 DEF Receipts
  <2>6. log' = Append(log, r) /\ handler' = [handler EXCEPT ![c] = g]
    BY <1>1, <2>2 DEF Seal
  <2>7. sequence' \in Nat /\ sequence <= sequence'
    BY <1>1, <2>1
  <2> HIDE DEF g, r
  <2>8. QED
    BY <2>1, <2>3, <2>4, <2>5, <2>6, <2>7, HandlerGoesOn DEF Active
<1>7. CASE Retryable(c)
  <2>1. ~AttemptsSpent(c) => h.attempt < MaxAttempts
    BY <1>1, <1>2 DEF AttemptsSpent
  <2>2. QED
    BY <1>4, <1>7, <2>1 DEF Retryable, Active
<1>8. CASE FailCall(c)
  BY <1>4, <1>8 DEF FailCall, Active
<1>9. CASE Retry(c)
  <2> DEFINE g == [h EXCEPT !.phase = "calling", !.attempt = @ + 1]
  <2>1. /\ h.phase = "delay" /\ UNCHANGED <<broker, sequence, shim, files, log>>
        /\ handler' = [handler EXCEPT ![c] = g]
    BY <1>1, <1>9 DEF Retry
  <2>2. h.seq # 0 /\ h.attempt < MaxAttempts
    BY <1>1, <2>1 DEF HandlerTrue
  <2>3. h.attempt + 1 \in 0 .. MaxAttempts /\ h.attempt + 1 # 0
    BY <1>1, <1>2, <2>2
  <2>4. /\ g \in Handlers /\ g.phase = "calling" /\ g.seq = h.seq
        /\ g.attempt = h.attempt + 1
    BY <1>1, <2>3 DEF Handlers, Active
  <2> HIDE DEF g
  <2>5. QED
    BY <1>3, <2>1, <2>2, <2>3, <2>4 DEF Active
<1>10. QED
  BY <1>5, <1>6, <1>7, <1>8, <1>9 DEF Handle

(* Stopping the broker, anywhere, keeps Evidence. *)
LEMMA StopBrokerKeeps ==
  ASSUME Evidence, StopBroker
  PROVE  Evidence'
<1>1. /\ TypeOK /\ handler \in [Calls -> Handlers]
      /\ broker' = "down" /\ UNCHANGED <<sequence, log, shim, files>>
      /\ \A c \in Calls : handler'[c] = IF handler[c].phase \in Active
                                        THEN [handler[c] EXCEPT !.phase = "gone"]
                                        ELSE handler[c]
  BY DEF Evidence, TypeOK, StopBroker, Handlers
<1>2. ASSUME NEW c \in Calls
      PROVE  /\ handler'[c] \in Handlers /\ handler'[c].seq = handler[c].seq
             /\ handler'[c].attempt = handler[c].attempt
             /\ handler'[c].bound = handler[c].bound
             /\ \/ handler[c].phase \in Active /\ handler'[c].phase = "gone"
                \/ handler[c].phase \notin Active /\ handler'[c].phase = handler[c].phase
  BY <1>1 DEF Handlers
<1>3. handler' \in [Calls -> Handlers]
  BY <1>2 DEF StopBroker
<1>4. TypeOK'
  BY <1>1, <1>3 DEF TypeOK, files, Handlers
<1>5. \A c \in Calls : HandlerTrue(c)' /\ ShimTrue(c)'
  BY <1>1, <1>2 DEF Evidence, HandlerTrue, ShimTrue, files, Active
<1>6. NumbersApart'
  BY <1>2 DEF Evidence, NumbersApart
<1>7. LogTrue'
  <2>1. log \in Seq(Receipts)
    BY <1>1 DEF TypeOK
  <2>2. \A n \in DOMAIN log : log[n].call \in Calls
    <3>1. \A n \in DOMAIN log : log[n] \in Receipts
      BY <2>1, LenProperties, ElementOfSeq
    <3>2. QED
      BY <3>1 DEF Receipts
  <2>3. QED
    BY <1>1, <1>2, <2>2 DEF Evidence, LogTrue, Active
<1>8. \A p \in Paths : PathTrue(p)'
  <2>1. response \in [Paths -> Calls \cup {None}] /\ response' = response
        /\ prompt' = prompt /\ receipt' = receipt
    BY <1>1 DEF TypeOK, files
  <2>2. QED
    BY <1>2, <2>1 DEF Evidence, PathTrue, Active
<1>9. QED
  BY <1>4, <1>5, <1>6, <1>7, <1>8 DEF Evidence

-----------------------------------------------------------------------------
Shims ==
  [phase : {"idle", "sent", "written", "done", "failed"}, path : Paths \cup {None}]

(* A shim that has launched goes on: the broker's side is left alone. *)
LEMMA ShimGoesOn ==
  ASSUME Evidence, NEW c \in Calls, NEW phase \in {"written", "done", "failed"},
         shim[c].phase \in {"sent", "written"}, ShimTo(c, phase),
         UNCHANGED <<broker, sequence, log, handler, prompt>>,
         NEW p \in Paths, p = shim[c].path,
         \/ response' = response /\ phase # "written"
         \/ /\ response' = [response EXCEPT ![p] = c] /\ phase = "written"
            /\ response[p] = None
            /\ handler[c].phase = "answered" /\ handler[c].bound,
         \/ receipt' = receipt
         \/ /\ receipt' = [receipt EXCEPT ![p] = c] /\ response[p] = c
            /\ response' = response
  PROVE  Evidence'
<1>1. /\ TypeOK /\ shim \in [Calls -> Shims] /\ prompt \in [Paths -> Calls \cup {None}]
      /\ response \in [Paths -> Calls \cup {None}]
      /\ receipt \in [Paths -> Calls \cup {None}]
  BY DEF Evidence, TypeOK, Shims
<1>2. /\ shim'[c].phase = phase /\ shim'[c].path = shim[c].path
      /\ \A d \in Calls : d # c => shim'[d] = shim[d]
      /\ shim' \in [Calls -> Shims] /\ phase \in {"written", "done", "failed"}
  BY <1>1 DEF ShimTo, Shims
<1>3. /\ response' \in [Paths -> Calls \cup {None}] /\ receipt' \in [Paths -> Calls \cup {None}]
      /\ \A q \in Paths : response[q] # None => response'[q] = response[q]
  BY <1>1, BrokerAssumption
<1>4. TypeOK'
  BY <1>1, <1>2, <1>3 DEF TypeOK, Shims
<1>5. prompt[p] = c
  BY DEF Evidence, ShimTrue
<1>6. ASSUME NEW d \in Calls
      PROVE  HandlerTrue(d)' /\ ShimTrue(d)'
  <2>1. HandlerTrue(d) /\ ShimTrue(d)
    BY DEF Evidence
  <2>2. shim'[d].phase = "idle" => shim[d].phase = "idle"
    BY <1>2
  <2>3. HandlerTrue(d)'
    BY <2>1, <2>2 DEF HandlerTrue
  <2>4. CASE d = c
    <3>1. phase = "written" => response'[p] = c
      BY <1>1
    <3>2. QED
      BY <1>2, <1>5, <2>3, <2>4, <3>1 DEF ShimTrue
  <2>5. CASE d # c
    <3>1. shim'[d] = shim[d]
      BY <1>2, <2>5
    <3>2. shim[d].phase = "written" => response'[shim[d].path] = d
      BY <1>3, <2>1, BrokerAssumption DEF ShimTrue
    <3>3. QED
      BY <2>1, <2>3, <3>1, <3>2 DEF ShimTrue
  <2>6. QED
    BY <2>4, <2>5
<1>7. \A q \in Paths : PathTrue(q)'
  <2>1. ASSUME NEW q \in Paths
        PROVE  PathTrue(q)'
    <3>1. PathTrue(q)
      BY DEF Evidence
    <3>2. receipt[q] # None => response[q] # None
      BY <3>1 DEF PathTrue
    <3>3. QED
      BY <1>1, <1>3, <1>5, <3>1, <3>2 DEF PathTrue
  <2>2. QED
    BY <2>1
<1>8. NumbersApart' /\ LogTrue'
  BY DEF Evidence, NumbersApart, LogTrue
<1>9. QED
  BY <1>4, <1>6, <1>7, <1>8 DEF Evidence

(* A shim that starts takes its path over and writes its prompt. *)
LEMMA LaunchKeeps ==
  ASSUME Evidence, NEW c \in Calls, Launch(c)
  PROVE  Evidence'
<1>1. /\ TypeOK /\ shim \in [Calls -> Shims] /\ handler \in [Calls -> Handlers]
      /\ prompt \in [Paths -> Calls \cup {None}]
      /\ shim[c].phase = "idle" /\ handler[c].phase = "none" /\ handler[c].seq = 0
      /\ UNCHANGED <<broker, sequence, log, response, receipt>>
  BY DEF Evidence, TypeOK, Shims, Handlers, Launch, HandlerTrue
<1>2. PICK p \in Paths :
        IF Fresh(prompt, p)
        THEN /\ prompt' = [prompt EXCEPT ![p] = c]
             /\ shim' = [shim EXCEPT ![c] = [phase |-> "sent", path |-> p]]
             /\ HandlerTo(c, IF broker = "up" THEN "reading" ELSE "gone")
        ELSE ShimTo(c, "failed") /\ UNCHANGED <<prompt, handler>>
  BY DEF Launch
<1>3. /\ shim' \in [Calls -> Shims] /\ shim'[c].phase \in {"sent", "failed"}
      /\ \A d \in Calls : d # c => shim'[d] = shim[d]
      /\ shim'[c].phase = "sent" => prompt'[p] = c /\ shim'[c].path = p
  BY <1>1, <1>2 DEF ShimTo, Shims
<1>4. /\ handler' \in [Calls -> Handlers] /\ handler'[c].seq = 0
      /\ handler'[c].phase \in {"none", "reading", "gone"}
      /\ \A d \in Calls : d # c => handler'[d] = handler[d]
  BY <1>1, <1>2 DEF HandlerTo, Handlers, Active
<1>5. /\ prompt' \in [Paths -> Calls \cup {None}]
      /\ \A q \in Paths : prompt[q] # None => prompt'[q] = prompt[q]
  BY <1>1, <1>2 DEF Fresh
<1>6. TypeOK'
  BY <1>1, <1>3, <1>4, <1>5 DEF TypeOK, Shims, Handlers
<1>7. ASSUME NEW d \in Calls
      PROVE  HandlerTrue(d)' /\ ShimTrue(d)'
  <2>1. CASE d = c
    <3>1. 0 <= sequence
      BY <1>1 DEF TypeOK
    <3>2. HandlerTrue(c)'
      BY <1>1, <1>3, <1>4, <3>1 DEF HandlerTrue
    <3>3. ShimTrue(c)'
      BY <1>3 DEF ShimTrue
    <3>4. QED
      BY <2>1, <3>2, <3>3
  <2>2. CASE d # c
    <3>1. shim'[d] = shim[d] /\ handler'[d] = handler[d] /\ HandlerTrue(d) /\ ShimTrue(d)
      BY <1>3, <1>4, <2>2 DEF Evidence
    <3>2. HandlerTrue(d)'
      BY <1>1, <3>1 DEF HandlerTrue
    <3>3. ShimTrue(d)'
      BY <1>1, <1>5, <3>1, BrokerAssumption DEF ShimTrue
    <3>4. QED
      BY <3>2, <3>3
  <2>3. QED
    BY <2>1, <2>2
<1>8. NumbersApart'
  BY <1>4 DEF Evidence, NumbersApart
<1>9. LogTrue'
  <2>1. \A n \in DOMAIN log : log[n].call # c
    BY <1>1 DEF Evidence, LogTrue
  <2>2. \A n \in DOMAIN log : log[n].call \in Calls
    <3>1. \A n \in DOMAIN log : log[n] \in Receipts
      BY <1>1, LenProperties, ElementOfSeq DEF TypeOK
    <3>2. QED
      BY <3>1 DEF Receipts
  <2>3. QED
    BY <1>1, <1>4, <2>1, <2>2 DEF Evidence, LogTrue
<1>10. ASSUME NEW q \in Paths
       PROVE  PathTrue(q)'
  <2>1. PathTrue(q) /\ response[q] \in Calls \cup {None}
    BY <1>1 DEF Evidence, TypeOK
  <2>2. response[q] # None => response[q] # c
    BY <1>1, <2>1 DEF PathTrue
  <2>3. QED
    BY <1>1, <1>4, <1>5, <2>1, <2>2 DEF PathTrue
<1>11. QED
  BY <1>6, <1>7, <1>8, <1>9, <1>10 DEF Evidence

(* Every step keeps Evidence. *)
LEMMA EvidenceNext ==
  ASSUME Evidence, [Next]_vars
  PROVE  Evidence'
<1>1. ASSUME NEW c \in Calls, shim[c].phase \in {"sent", "written"}
      PROVE  shim[c].path \in Paths
  BY <1>1 DEF Evidence, ShimTrue
<1>2. ASSUME NEW c \in Calls, Accept(c)
      PROVE  Evidence'
  <2>1. /\ shim[c].phase = "sent" /\ handler[c].phase = "answered"
        /\ UNCHANGED <<broker, sequence, log, handler, prompt, receipt>>
    BY <1>2 DEF Accept
  <2>2. CASE handler[c].bound /\ Fresh(response, shim[c].path)
    <3>1. /\ response' = [response EXCEPT ![shim[c].path] = c] /\ ShimTo(c, "written")
          /\ response[shim[c].path] = None
      BY <1>2, <2>2 DEF Accept, Fresh
    <3>2. QED
      BY <1>1, <2>1, <2>2, <3>1, ShimGoesOn
  <2>3. CASE ~(handler[c].bound /\ Fresh(response, shim[c].path))
    <3>1. ShimTo(c, "failed") /\ response' = response
      BY <1>2, <2>3 DEF Accept
    <3>2. QED
      BY <1>1, <2>1, <3>1, ShimGoesOn
  <2>4. QED
    BY <2>2, <2>3
<1>3. ASSUME NEW c \in Calls, KeepReceipt(c)
      PROVE  Evidence'
  <2>1. /\ shim[c].phase = "written" /\ response[shim[c].path] = c
        /\ UNCHANGED <<broker, sequence, log, handler, prompt, response>>
    BY <1>3 DEF KeepReceipt, Evidence, ShimTrue
  <2>2. \/ receipt' = [receipt EXCEPT ![shim[c].path] = c] /\ ShimTo(c, "done")
        \/ receipt' = receipt /\ ShimTo(c, "failed")
    BY <1>3 DEF KeepReceipt
  <2>3. QED
    BY <1>1, <2>1, <2>2, ShimGoesOn
<1>4. ASSUME NEW c \in Calls, GiveUp(c)
      PROVE  Evidence'
  <2>1. /\ shim[c].phase \in {"sent", "written"} /\ ShimTo(c, "failed")
        /\ UNCHANGED <<broker, sequence, log, handler, prompt>>
        /\ response' = response /\ receipt' = receipt
    BY <1>4 DEF GiveUp, files
  <2>2. QED
    BY <1>1, <2>1, ShimGoesOn
<1>5. CASE UNCHANGED vars
  BY <1>5 DEF vars, files, Evidence, TypeOK, HandlerTrue, ShimTrue, NumbersApart, LogTrue,
     PathTrue
<1>6. QED
  BY <1>2, <1>3, <1>4, <1>5, HandleKeeps, LaunchKeeps, StopBrokerKeeps DEF Next

(* Numbers, receipts and files are tied to one call each, whatever the      *)
(* order in which handlers and shims take their steps and end.              *)
THEOREM EvidenceKept == Spec => []Evidence
BY EvidenceInit, EvidenceNext, PTL DEF Spec

(* Broker, shims and files are well typed: no request is attempted more     *)
(* often than the retry limit, for any limit.                               *)
THEOREM BrokerTypeCorrect == Spec => []TypeOK
<1>1. Evidence => TypeOK
  BY DEF Evidence
<1>2. QED
  BY <1>1, EvidenceKept, PTL

(* A receipt carries the number its request got on arrival, and no two      *)
(* receipts share a number or a call, however many requests interleave.     *)
THEOREM ReceiptsApart == Spec => []ReceiptsNumberedApart
<1>1. ASSUME Evidence PROVE ReceiptsNumberedApart
  <2>1. \A n \in DOMAIN log : log[n] \in Receipts
    BY <1>1, LenProperties, ElementOfSeq DEF Evidence, TypeOK
  <2>2. \A n \in DOMAIN log : log[n].call \in Calls /\ log[n].seq \in Nat
    BY <2>1 DEF Receipts
  <2>3. ASSUME NEW n \in DOMAIN log
        PROVE  /\ log[n].seq = handler[log[n].call].seq /\ log[n].seq \in 1 .. sequence
    <3>1. /\ handler[log[n].call].phase = "answered"
          /\ log[n].seq = handler[log[n].call].seq
      BY <1>1 DEF Evidence, LogTrue
    <3>2. handler[log[n].call].seq # 0 /\ handler[log[n].call].seq <= sequence
      BY <1>1, <2>2, <3>1 DEF Evidence, HandlerTrue
    <3>3. sequence \in Nat
      BY <1>1 DEF Evidence, TypeOK
    <3>4. QED
      BY <2>2, <3>1, <3>2, <3>3
  <2>4. ASSUME NEW m \in DOMAIN log, NEW n \in DOMAIN log, m # n
        PROVE  log[m].seq # log[n].seq /\ log[m].call # log[n].call
    <3>1. log[m].call # log[n].call
      BY <1>1, <2>4 DEF Evidence, LogTrue
    <3>2. handler[log[m].call].seq # 0
      BY <2>3
    <3>3. QED
      BY <1>1, <2>2, <2>3, <3>1, <3>2 DEF Evidence, NumbersApart
  <2>5. QED
    BY <2>3, <2>4 DEF ReceiptsNumberedApart
<1>2. QED
  BY <1>1, EvidenceKept, PTL

(* Whatever answer the product may read has exactly one bound receipt in    *)
(* the broker's file, whenever shims give up or the broker is stopped.      *)
THEOREM UsedAnswersLogged == Spec => []UsedAnswersAreLogged
<1>1. ASSUME Evidence PROVE UsedAnswersAreLogged
  <2> SUFFICES ASSUME NEW p \in Paths, response[p] # None
               PROVE  Cardinality({n \in DOMAIN log :
                                     log[n].call = response[p] /\ log[n].bound}) = 1
    BY DEF UsedAnswersAreLogged
  <2>1. /\ response[p] \in Calls /\ handler[response[p]].phase = "answered"
        /\ handler[response[p]].bound
    BY <1>1 DEF Evidence, PathTrue, TypeOK
  <2>2. PICK n \in DOMAIN log : log[n].call = response[p]
    BY <1>1, <2>1 DEF Evidence, HandlerTrue
  <2>3. log[n].bound
    BY <1>1, <2>1, <2>2 DEF Evidence, LogTrue
  <2>4. \A m \in DOMAIN log : log[m].call = response[p] => m = n
    BY <1>1, <2>2 DEF Evidence, LogTrue
  <2>5. {m \in DOMAIN log : log[m].call = response[p] /\ log[m].bound} = {n}
    BY <2>2, <2>3, <2>4
  <2>6. QED
    BY <2>5, FS_Singleton
<1>2. QED
  BY <1>1, EvidenceKept, PTL

(* The prompt, response and receipt beside a path are of one call.          *)
THEOREM FilesMatch == Spec => []FilesOfOneCall
<1>1. Evidence => FilesOfOneCall
  BY DEF Evidence, PathTrue, FilesOfOneCall
<1>2. QED
  BY <1>1, EvidenceKept, PTL

===============================================================================
