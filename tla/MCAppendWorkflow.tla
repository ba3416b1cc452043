-------------------------- MODULE MCAppendWorkflow --------------------------
(***************************************************************************)
(* The append workflow over a small registry: two cases that claim one     *)
(* title chain, so the second assignment is rejected.                      *)
(***************************************************************************)
EXTENDS AppendWorkflow

CONSTANTS c1, c2, k1

Chain(c) ==
  [f \in IdentityFields |->
     IF f = "titleChain" THEN "v0" ELSE IF c = c1 THEN "v1" ELSE "v2"]

AssignTo(c) ==
  [eventType |-> "assign", caseId |-> c, corpusId |-> k1,
   payload |-> [split |-> "tuning", custodyMode |-> "operator-attested",
                identity |-> Chain(c), instrument |-> "g", family |-> "g"]]

Quarantine(v) ==
  [eventType |-> "legacy-quarantine", caseId |-> None, corpusId |-> None,
   payload |->
     [records |-> {[caseId |-> None,
                    identity |-> [f \in IdentityFields \cup TruthFields |->
                                    IF f = "source" THEN v ELSE None]]}]]

MCRequests == {AssignTo(c1), AssignTo(c2)}

MCGenesis ==
  <<[eventType |-> "legacy-quarantine", caseId |-> None, corpusId |-> None,
     issuedAt |-> 0, payload |-> Quarantine("v3").payload]>>

=============================================================================
