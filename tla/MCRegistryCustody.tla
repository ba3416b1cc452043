-------------------------- MODULE MCRegistryCustody --------------------------
(***************************************************************************)
(* Custody from assignment to judgement, over three imported histories     *)
(* with a corpus each: a final cohort, a fail-safe cohort and a tuning      *)
(* cohort whose campaigns are judged.  A request for one corpus finds      *)
(* nothing to rest on in the history of another and is refused there.      *)
(***************************************************************************)
EXTENDS MCRegistry

CONSTANT k3

(* The clock of the last import: what follows is stamped no earlier. *)
At(log, now) == [log EXCEPT ![Len(log)].issuedAt = now]

(***************************************************************************)
(* c1 and c2 are assigned to a final cohort of two and c1's truth is       *)
(* sealed; callers may seal c2's truth, let c3 outgrow the cohort, release *)
(* to either tip, consume any set of roots under two campaigns and seal    *)
(* executions with either count.                                           *)
(***************************************************************************)
FinalImport ==
  << Imported(TouchedSource),
     Imported(AssignTo(c1, k1, "final")), Imported(AssignTo(c2, k1, "final")),
     Imported(TruthAs(c1, k1, 2, 0, 0, "v0", Own(c1))) >>

FinalRequests ==
  {AssignTo(c3, k1, "final")}
  \cup {TruthAs(c, k1, a, t, 0, "v0", Own(c)) :
          c \in Cases, a \in 2 .. 4, t \in Time}
  \cup {Ask("source-release", c, k1, [productCodeTip |-> tip]) :
          c \in Cases, tip \in Tips}
  \cup {ConsumeAs(k1, m, "final", tip, roots) : m \in Campaigns, tip \in Tips,
          roots \in {{2}, {2, 3}, {2, 4}} \cup {{2, 3, a} : a \in 5 .. 8}}
  \cup {ExecutionAs(k1, m, r, tip, n) : m \in Campaigns, tip \in Tips,
          r \in 5 .. MaxEvents, n \in {1, FinalExecutions}}

(***************************************************************************)
(* c1 and c2 are refusal cases.  Reviews may find the same property behind *)
(* both, reach different candidates and follow one another in any order;   *)
(* truth seals may quote any review and candidate.                         *)
(***************************************************************************)
RefusalImport ==
  << Imported(TouchedSource),
     Imported(AssignTo(c1, k2, "fail-safe")),
     Imported(AssignTo(c2, k2, "fail-safe")) >>

ReviewAs(c, a, candidate, aliases, twoSystems) ==
  Ask("review-seal", c, k2,
      [assignmentEvent |-> a, source |-> Own(c), selector |-> Own(c),
       candidate |-> candidate, aliases |-> aliases,
       twoSystems |-> twoSystems])

RefusalRequests ==
  {ReviewAs(c, a, d, s, b) : c \in {c1, c2}, a \in 2 .. 3, d \in {"v1", "v2"},
     s \in {{"v1"}, {"v1", "v2"}, {"v2"}}, b \in BOOLEAN}
  \cup {TruthAs(c, k2, a, t, v, d, Own(c)) : c \in {c1, c2}, a \in 2 .. 3,
          t \in Time, v \in 0 .. 7, d \in {"v1", "v2"}}
  \cup {ConsumeAs(k2, "m1", s, "t1", {2, 3}) : s \in {"fail-safe", "tuning"}}
  \cup {ExecutionAs(k2, "m1", r, tip, 1) : r \in 2 .. MaxEvents, tip \in Tips}

(***************************************************************************)
(* A tuning cohort of c1 is consumed by one of two campaigns.  Both may be *)
(* executed and judged in two roles; callers quote any event as the one    *)
(* they answer.                                                            *)
(***************************************************************************)
JudgedImport ==
  At(<< Imported(TouchedSource), Imported(AssignTo(c1, k3, "tuning")),
        Imported(TruthAs(c1, k3, 2, 0, 0, "v0", Own(c1))),
        Imported(QuarantineAs({LegacyAs(None, [source |-> "v2"])})),
        Imported(ConsumeAs(k3, "m1", "tuning", "t1", {2})) >>, 1)

JudgedRequests ==
  {ConsumeAs(k3, m, "tuning", "t1", {2}) : m \in Campaigns}
  \cup {ExecutionAs(k3, m, k, "t1", 1) : m \in Campaigns, k \in 5 .. MaxEvents}
  \cup {Ask("judge-challenge", None, k3,
            [campaign |-> m, role |-> r, executionSealEvent |-> x,
             evidenceRoot |-> v]) :
          m \in Campaigns, r \in {"numerical", "visual"},
          x \in 6 .. MaxEvents, v \in {"v1", "v2"}}
  \cup {Ask("judge-seal", None, k3,
            [campaign |-> m, role |-> r, judgeChallengeEvent |-> j,
             digestOf |-> d, evidenceRoot |-> v]) :
          m \in Campaigns, r \in {"numerical", "visual"},
          j \in 7 .. MaxEvents, d \in 7 .. MaxEvents, v \in {"v1", "v2"}}

MCImports == {FinalImport, RefusalImport, JudgedImport}

MCRequests == FinalRequests \cup RefusalRequests \cup JudgedRequests

=============================================================================
